---- MODULE Spec2Model ----
(***************************************************************************)
(* OptiFork evaluation core: flag evaluation (backend/main.py), segment    *)
(* targeting (backend/crud.py) and sticky experiment assignment            *)
(* (backend/experiments/crud.py, backend/routers/experiment_router.py).    *)
(*                                                                         *)
(* Numbers.  Python floats that occur in the model are multiples of        *)
(* 1/10000, written as integers:                                           *)
(*   - a bucket (hash mod 10000) / 10000.0 is its numerator k, 0..9999;    *)
(*   - a flag rollout r in [0,1] is r * 10000;                             *)
(*   - a rollout_percentage p is kept in percent, p / 100.0 is p * 100;    *)
(*   - traffic splits and random draws are in hundredths.                  *)
(* Strings keep their Python order through StrOrder.                       *)
(***************************************************************************)
EXTENDS Integers, Sequences, FiniteSets, TLC

VARIABLES
    flags,             \* table feature_flags (+ rules): id -> row
    experiments,       \* table experiments, in insertion order (id = index)
    variants,          \* table variants, in insertion order (id = index)
    user_assignments,  \* table user_assignments, in insertion order
    exposures,         \* table exposures (experiment exposure log)
    call,              \* the request each worker is serving
    response,          \* the last response sent by the experiment router
    first_returned,    \* history: first variant returned per (experiment, user)
    segments,          \* table user_segments: id -> row
    deleted_segments,  \* history: ids of the user_segments rows deleted so far
    flag_segments,     \* table flag_segments, in insertion order
    tie_order,         \* order in which the store lists rows with equal sort key
    flag_exposures,    \* table flag_exposures (flag exposure log)
    resp,              \* the last flag evaluation: its request and response
    remote_configs,    \* table remote_configs: id -> row
    config_segments,   \* table config_segments, in insertion order
    config_exposures,  \* table config_exposures (config exposure log)
    cresp,             \* the last config evaluation: its request and response
    probe              \* the last application of a pure function: inputs, result

vars == <<flags, experiments, variants, user_assignments, exposures, call,
          response, first_returned, segments, deleted_segments, flag_segments,
          tie_order, flag_exposures,
          resp, remote_configs, config_segments, config_exposures, cresp, probe>>

exp_vars == <<experiments, variants, user_assignments, exposures, call, response,
              first_returned>>
flag_vars == <<segments, deleted_segments, flag_segments, tie_order, flag_exposures,
               resp>>
config_vars == <<remote_configs, config_segments, config_exposures, cresp>>

----------------------------------------------------------------------------
(* Bounds of the model *)

MaxAssignments == 2   \* rows of user_assignments
MaxExposures == 1     \* rows of the experiment exposure log
MaxFlagExposures == 2 \* rows of the flag exposure log
MaxAssociations == 2  \* rows of flag_segments, rows of config_segments
MaxConfigExposures == 2 \* rows of the config exposure log

(* Values *)

NULL == "NULL"        \* Python None / SQL NULL / a key absent from a dict

\* Every string of the model, in Python's (code point) order.
StrOrder == <<"CA", "US", "user-1457", "user-2781", "user-42">>

StrIndex(s) == CHOOSE i \in 1..Len(StrOrder) : StrOrder[i] = s

StrLess(a, b) == StrIndex(a) < StrIndex(b)

----------------------------------------------------------------------------
(* Subject attributes: a dict, here a function that gives NULL for a key    *)
(* the dict does not hold.                                                  *)

Fields == {"country", "user_id"}

\* dict.get(key): None for a key the dict does not hold.
Get(attrs, key) == IF key \in DOMAIN attrs THEN attrs[key] ELSE NULL

\* main.py:210-211: the query parameters plus user_id.
FlagAttrs(user_id, country) ==
    [f \in Fields |-> IF f = "user_id" THEN user_id ELSE country]

\* experiment_router.py:48-50: only a truthy country is passed on.
AssignAttrs(country) ==
    [f \in Fields |-> IF f = "country" THEN country ELSE NULL]

----------------------------------------------------------------------------
(* Legacy rules *)

Rule(f, o, v) == [field |-> f, op |-> o, value |-> v]

\* A gate that lets a rule with an absent field pass.
evaluate_rules_absent_passes(rules, user_attrs) ==
    \E i \in DOMAIN rules :
        LET field_val == Get(user_attrs, rules[i].field)
            value == rules[i].value
            op == rules[i].op
        IN  \/ field_val = NULL
            \/ op = "eq" /\ field_val = value
            \/ op = "ne" /\ field_val # value
            \/ op = "gt" /\ StrLess(value, field_val)
            \/ op = "lt" /\ StrLess(field_val, value)

\* main.py:188-201.  OR over the rules; a rule whose field is absent is skipped.
evaluate_rules(rules, user_attrs) ==
    \E i \in DOMAIN rules :
        LET field_val == Get(user_attrs, rules[i].field)
            value == rules[i].value
            op == rules[i].op
        IN  /\ field_val # NULL
            /\ \/ op = "eq" /\ field_val = value
               \/ op = "ne" /\ field_val # value
               \/ op = "gt" /\ StrLess(value, field_val)
               \/ op = "lt" /\ StrLess(field_val, value)

\* main.py:188-201: the exception that leaves evaluate_rules, NULL when it
\* returns.  `field_val > rule["value"]` and `<` between a str and None raise
\* TypeError; a rule satisfied before returns first.
rules_raises(rules, user_attrs) ==
    LET raising == {i \in DOMAIN rules :
                       /\ Get(user_attrs, rules[i].field) # NULL
                       /\ rules[i].op \in {"gt", "lt"}
                       /\ rules[i].value = NULL}
        first == CHOOSE i \in raising : \A j \in raising : i <= j
    IN  IF raising # {} /\ ~evaluate_rules(SubSeq(rules, 1, first - 1), user_attrs)
        THEN "TypeError" ELSE NULL

\* experiments/crud.py:188-203.  AND over the rules; only the operators
\* "equals" and "not_equals" can fail; an absent attribute reads as None.
evaluate_flag_rules(rules, user_attributes) ==
    \A i \in DOMAIN rules :
        LET user_val == Get(user_attributes, rules[i].field)
            val == rules[i].value
            op == rules[i].op
        IN  /\ ~(op = "equals" /\ user_val # val)
            /\ ~(op = "not_equals" /\ user_val = val)

FlagRow(n, r, rs) == [name |-> n, rollout |-> r, rules |-> rs]

FlagIds == {1}

----------------------------------------------------------------------------
(* Experiment assignment *)

\* flag_id 0 is None (experiments/crud.py:60 tests its truth value).
ExperimentRow(n, f) == [name |-> n, flag_id |-> f]

VariantRow(e, n, t) == [experiment_id |-> e, name |-> n, traffic_split |-> t]

AssignmentRow(e, v, u) == [experiment_id |-> e, variant_id |-> v, user_id |-> u]

\* random.random() (experiments/crud.py:96), in hundredths.
Draws == {0, 25, 50, 75}

Workers == {"w1", "w2"}

ExperimentNames == {"exp", "exp_missing"}

AssignUsers == {"user-42", "user-2781"}

\* Values of the country query parameter; NULL when it is not given.
Countries == {NULL, "US"}

\* prior is history: the variant that had already been returned for the pair
\* when the call came in (0 when none had).
Idle == [pc |-> "idle", kind |-> NULL, experiment_id |-> 0, user_id |-> NULL,
         variant |-> 0, prior |-> 0]

\* draw is the value random.random() gave the call (in percent), NoDraw when
\* the call drew nothing.
NoDraw == 0 - 1

NoResponse == [kind |-> NULL, experiment_id |-> 0, user_id |-> NULL,
               status |-> 0, variant |-> 0, prior |-> 0, draw |-> NoDraw]

\* experiments/crud.py:36-40.
get_experiment_by_name(name) ==
    LET hits == {i \in DOMAIN experiments : experiments[i].name = name}
    IN  IF hits = {} THEN 0 ELSE CHOOSE i \in hits : \A j \in hits : i <= j

\* experiments/crud.py:74-82: the rows of (experiment, user), first() of them.
AssignmentsOf(e, u) ==
    {i \in DOMAIN user_assignments :
        user_assignments[i].experiment_id = e /\ user_assignments[i].user_id = u}

FirstAssignment(e, u) ==
    CHOOSE i \in AssignmentsOf(e, u) : \A j \in AssignmentsOf(e, u) : i <= j

\* experiments/crud.py:88-91: ids of the experiment's variants, in table order.
VariantsOf(e) ==
    LET ids == {i \in DOMAIN variants : variants[i].experiment_id = e}
        F[n \in 0..Len(variants)] ==
            IF n = 0 THEN <<>>
            ELSE IF n \in ids THEN Append(F[n - 1], n) ELSE F[n - 1]
    IN  F[Len(variants)]

\* experiments/crud.py:96-104: walk the cumulative splits, else the last one.
RECURSIVE Walk(_, _, _, _)
Walk(vs, i, acc, rnd) ==
    IF i > Len(vs) THEN vs[Len(vs)]
    ELSE LET acc2 == acc + variants[vs[i]].traffic_split
         IN  IF rnd <= acc2 THEN vs[i] ELSE Walk(vs, i + 1, acc2, rnd)

\* A selection that always takes the first variant.
PickVariant_first(vs, rnd) == vs[1]

PickVariant(vs, rnd) == Walk(vs, 1, 0, rnd)

\* The response sent for worker w's call, which drew rnd.  first_returned
\* keeps the first variant an assign call returned for the pair.
RespondDrawn(w, kind, e, u, status, v, prior, rnd) ==
    /\ response' = [kind |-> kind, experiment_id |-> e, user_id |-> u,
                    status |-> status, variant |-> v, prior |-> prior,
                    draw |-> rnd]
    /\ call' = [call EXCEPT ![w] = Idle]
    /\ first_returned' =
           IF status = 200 /\ kind = "assign" /\ first_returned[e, u] = 0
           THEN [first_returned EXCEPT ![e, u] = v]
           ELSE first_returned

\* The response of a call that drew nothing.
Respond(w, kind, e, u, status, v, prior) ==
    RespondDrawn(w, kind, e, u, status, v, prior, NoDraw)

\* assign_user_to_variant returns variant v (0 is None) to the router.
\* assign: 200 with the variant, 400 on None (experiment_router.py:60-67).
\* exposure: None fails on variant.id (experiment_router.py:77), a 500;
\* otherwise the router goes on to log the exposure.
ReturnDrawn(w, kind, e, u, v, prior, rnd) ==
    IF kind = "assign"
    THEN RespondDrawn(w, kind, e, u, IF v = 0 THEN 400 ELSE 200, v, prior, rnd)
    ELSE IF v = 0
         THEN RespondDrawn(w, kind, e, u, 500, 0, prior, rnd)
         ELSE /\ call' = [call EXCEPT ![w] =
                     [pc |-> "log", kind |-> kind, experiment_id |-> e,
                      user_id |-> u, variant |-> v, prior |-> prior]]
              /\ UNCHANGED <<response, first_returned>>

\* The same for a call that returns before the draw.
Return(w, kind, e, u, v, prior) == ReturnDrawn(w, kind, e, u, v, prior, NoDraw)

\* experiment_router.py:36-57 (assign_user) and 71-76 (log_exposure), then
\* experiments/crud.py:55-84: look the experiment up by name (404 when absent),
\* evaluate the gate and look a prior assignment up.  The lookup is nested in
\* `if experiment.flag_id:` (experiments/crud.py:60, 74-84).
AssignRequest(w, kind, name, user_id, country) ==
    /\ call[w].pc = "idle"
    /\ kind = "exposure" => country = NULL
    /\ LET e == get_experiment_by_name(name)
           \* experiment_router.py:76: the exposure endpoint passes no attributes
           \* (experiments/crud.py:52, the default {}).
           user_attributes == IF kind = "assign" THEN AssignAttrs(country) ELSE ([f \in Fields |-> NULL])
           prior == IF e = 0 THEN 0 ELSE first_returned[e, user_id]
           proceed == /\ call' = [call EXCEPT ![w] =
                             [pc |-> "commit", kind |-> kind, experiment_id |-> e,
                              user_id |-> user_id, variant |-> 0, prior |-> prior]]
                      /\ UNCHANGED <<response, first_returned>>
       IN  IF e = 0
           THEN Respond(w, kind, 0, user_id, 404, 0, 0)
           ELSE IF experiments[e].flag_id # 0
                THEN IF experiments[e].flag_id \in DOMAIN flags
                        /\ ~evaluate_flag_rules(flags[experiments[e].flag_id].rules,
                                                user_attributes)
                     THEN Return(w, kind, e, user_id, 0, prior)
                     ELSE IF AssignmentsOf(e, user_id) # {}
                          THEN Return(w, kind, e, user_id,
                                   user_assignments[FirstAssignment(e, user_id)].variant_id,
                                   prior)
                          ELSE proceed
                ELSE proceed
    /\ UNCHANGED <<flags, experiments, variants, user_assignments, exposures>>
    /\ UNCHANGED flag_vars
    /\ UNCHANGED <<config_vars, probe>>

\* experiments/crud.py:87-113.  Fetch the variants, draw, insert and commit the
\* new row.  The table has no uniqueness constraint (experiments/models.py:32-40),
\* so the insert always succeeds.
AssignCommit(w) ==
    /\ call[w].pc = "commit"
    /\ LET e == call[w].experiment_id
           u == call[w].user_id
           vs == VariantsOf(e)
       IN  IF vs = <<>>
           THEN /\ Return(w, call[w].kind, e, u, 0, call[w].prior)
                /\ UNCHANGED user_assignments
           ELSE /\ Len(user_assignments) < MaxAssignments
                /\ \E rnd \in Draws :
                      LET assigned_variant == PickVariant(vs, rnd)
                      IN  /\ user_assignments' = Append(user_assignments,
                                 AssignmentRow(e, assigned_variant, u))
                          /\ ReturnDrawn(w, call[w].kind, e, u, assigned_variant,
                                         call[w].prior, rnd)
    /\ UNCHANGED <<flags, experiments, variants, exposures>>
    /\ UNCHANGED flag_vars
    /\ UNCHANGED <<config_vars, probe>>

\* experiment_router.py:77-80 with experiments/crud.py:116-124.
LogExposure(w) ==
    /\ call[w].pc = "log"
    /\ Len(exposures) < MaxExposures
    /\ exposures' = Append(exposures,
           [experiment_id |-> call[w].experiment_id,
            variant_id |-> call[w].variant,
            user_id |-> call[w].user_id])
    /\ Respond(w, "exposure", call[w].experiment_id, call[w].user_id, 200,
               call[w].variant, call[w].prior)
    /\ UNCHANGED <<flags, experiments, variants, user_assignments>>
    /\ UNCHANGED flag_vars
    /\ UNCHANGED <<config_vars, probe>>

----------------------------------------------------------------------------
(* The store of the flag evaluator is idle in the assignment specification. *)

\* No config evaluation has been answered, no pure function applied.
NoConfigResponse ==
    [key |-> NULL, user_id |-> NULL, country |-> NULL, status |-> 0,
     value |-> [t |-> "none", v |-> 0], value_type |-> NULL,
     segment_id |-> 0, segment_name |-> NULL]

NoProbe == [fn |-> NULL]

ConfigStoreIdle ==
    /\ remote_configs = <<>>
    /\ config_segments = <<>>
    /\ config_exposures = <<>>
    /\ cresp = NoConfigResponse

\* No flag evaluation has been answered.
NoFlagResponse ==
    [flag |-> NULL, user_id |-> NULL, country |-> NULL,
     status |-> 0, path |-> NULL, enabled |-> FALSE]

FlagStoreIdle ==
    /\ segments = <<>>
    /\ deleted_segments = {}
    /\ flag_segments = <<>>
    /\ tie_order = "asc"
    /\ flag_exposures = <<>>
    /\ resp = NoFlagResponse
    /\ ConfigStoreIdle
    /\ probe = NoProbe

\* Experiment tables create_experiment (experiments/crud.py:13-33) can have
\* left: the experiment gated by flag 1 or ungated, with two variants.
ExperimentTables ==
    { <<ExperimentRow("exp", 1)>>, <<ExperimentRow("exp", 0)>> }

Init ==
    /\ experiments \in ExperimentTables
    /\ \E rs \in ({ <<Rule("country", "eq", "US")>>, <<Rule("country", "equals", "US")>> }) :
          /\ experiments[1].flag_id = 0 => rs = <<Rule("country", "eq", "US")>>
          /\ flags = [f \in FlagIds |-> FlagRow("gate", 10000, rs)]
    /\ variants = <<VariantRow(1, "control", 50), VariantRow(1, "treatment", 50)>>
    /\ user_assignments = <<>>
    /\ exposures = <<>>
    /\ call = [w \in Workers |-> Idle]
    /\ response = NoResponse
    /\ first_returned = [x \in (DOMAIN experiments) \X AssignUsers |-> 0]
    /\ FlagStoreIdle

Next ==
    \/ \E w \in Workers, kind \in {"assign", "exposure"}, name \in ExperimentNames,
          user_id \in AssignUsers, country \in Countries :
            AssignRequest(w, kind, name, user_id, country)
    \/ \E w \in Workers : AssignCommit(w)
    \/ \E w \in Workers : LogExposure(w)

Spec == Init /\ [][Next]_vars

----------------------------------------------------------------------------
(* Values of segment conditions and subject traits (JSON / Python values),   *)
(* tagged with their Python type.                                            *)

Str(s) == [t |-> "str", v |-> s]
Num(n) == [t |-> "num", v |-> n]
Bool(b) == [t |-> "bool", v |-> b]
List(l) == [t |-> "list", v |-> l]
None == [t |-> "none", v |-> 0]
Absent == [t |-> "absent", v |-> 0]     \* the key is not in the traits dict
BigInt == [t |-> "bigint", v |-> 0]     \* the JSON integer 10 ** 400

\* Python ==.  bool is an int (True == 1); values of unrelated types differ.
RECURSIVE PyEq(_, _)
PyEq(a, b) ==
    CASE a.t = "list" /\ b.t = "list" ->
            /\ Len(a.v) = Len(b.v)
            /\ \A i \in DOMAIN a.v : PyEq(a.v[i], b.v[i])
      [] a.t = "bool" /\ b.t = "num" -> (IF a.v THEN 1 ELSE 0) = b.v
      [] a.t = "num" /\ b.t = "bool" -> a.v = (IF b.v THEN 1 ELSE 0)
      [] a.t = b.t /\ a.t # "list" -> a.v = b.v
      [] OTHER -> FALSE

\* A membership test that looks at the first element only.
PyIn_first(x, l) == l.v # <<>> /\ PyEq(x, l.v[1])

\* Python `x in a_list`.
PyIn(x, l) == \E i \in DOMAIN l.v : PyEq(x, l.v[i])

\* The strings of the model with what Python's str methods give on them:
\* lower(), and for float() the number a numeric string denotes.
LowerOf ==
    [s \in {"US", "CA", "us", "ca", "user-1457", "user-2781", "user-42", "premium", "free",
            "18", "25", "abc", "True", "False", "None"} |->
        CASE s = "US" -> "us" [] s = "CA" -> "ca" [] s = "True" -> "true"
          [] s = "False" -> "false" [] s = "None" -> "none" [] OTHER -> s]

NumberOf == [s \in {"18", "25"} |-> IF s = "18" THEN 18 ELSE 25]

\* str(x) for the scalar values of the model (crud.py:224-226, 252-254).
PyStr(x) ==
    CASE x.t = "str" -> x.v
      [] x.t = "num" -> IF x.v = 18 THEN "18" ELSE "25"
      [] x.t = "bool" -> IF x.v THEN "True" ELSE "False"
      [] x.t = "list" -> "[...]"
      [] x.t = "bigint" -> "1000 ... 401 digits"
      [] OTHER -> "None"

Lower(s) == IF s \in DOMAIN LowerOf THEN LowerOf[s] ELSE s

\* a.startswith(b), a.endswith(b) and `b in a` on the strings of the model:
\* none of them is a proper prefix, suffix or infix of another one, except
\* that "us" is a prefix and an infix of "user-...".
StartsWith(a, b) == a = b \/ (b = "us" /\ a \in {"user-1457", "user-2781", "user-42"})
EndsWith(a, b) == a = b
Contains(a, b) == a = b \/ (b = "us" /\ a \in {"user-1457", "user-2781", "user-42"})

\* float(x) (crud.py:233): ok is FALSE where Python raises, and raised names
\* the exception: ValueError on a text that is no number, TypeError on None
\* and on a list, OverflowError on an integer beyond the floats.
ToFloat(x) ==
    CASE x.t = "num" -> [ok |-> TRUE, val |-> x.v, raised |-> NULL]
      [] x.t = "bool" -> [ok |-> TRUE, val |-> IF x.v THEN 1 ELSE 0, raised |-> NULL]
      [] x.t = "str" /\ x.v \in DOMAIN NumberOf ->
            [ok |-> TRUE, val |-> NumberOf[x.v], raised |-> NULL]
      [] x.t = "str" -> [ok |-> FALSE, val |-> 0, raised |-> "ValueError"]
      [] x.t = "bigint" -> [ok |-> FALSE, val |-> 0, raised |-> "OverflowError"]
      [] OTHER -> [ok |-> FALSE, val |-> 0, raised |-> "TypeError"]

Condition(f, o, v) == [field |-> f, operator |-> o, value |-> v]

NumericOperators ==
    {"greater_than", "less_than", "greater_than_or_equal", "less_than_or_equal"}

\* crud.py:231-250: the exception that leaves evaluate_segment_condition, NULL
\* when it returns.  float(actual_value) is evaluated before
\* float(expected_value); `except (ValueError, TypeError)` catches those two.
condition_raises(user_traits, condition) ==
    LET actual_value == IF condition.field \in DOMAIN user_traits
                        THEN user_traits[condition.field] ELSE Absent
        a == ToFloat(actual_value)
        e == ToFloat(condition.value)
        first == IF a.raised # NULL THEN a.raised ELSE e.raised
    IN  IF actual_value.t = "absent" \/ condition.operator \notin NumericOperators
        THEN NULL
        ELSE IF first \in {"ValueError", "TypeError"} THEN NULL ELSE first

\* An evaluation that reads a missing field as None, as user_traits.get would.
evaluate_segment_condition_get(user_traits, condition) ==
    LET operator == condition.operator
        expected_value == condition.value
        actual_value == IF condition.field \in DOMAIN user_traits
                        THEN user_traits[condition.field] ELSE None
        a == ToFloat(actual_value)
        e == ToFloat(expected_value)
    IN  IF actual_value.t = "absent" THEN FALSE
        ELSE CASE operator = "equals" -> PyEq(actual_value, expected_value)
               [] operator = "not_equals" -> ~PyEq(actual_value, expected_value)
               [] operator = "contains" ->
                    Contains(Lower(PyStr(actual_value)), Lower(PyStr(expected_value)))
               [] operator = "not_contains" ->
                    ~Contains(Lower(PyStr(actual_value)), Lower(PyStr(expected_value)))
               [] operator = "in" ->
                    IF expected_value.t = "list" THEN PyIn(actual_value, expected_value)
                    ELSE FALSE
               [] operator = "not_in" ->
                    IF expected_value.t = "list" THEN ~PyIn(actual_value, expected_value)
                    ELSE TRUE
               [] operator = "greater_than" -> a.ok /\ e.ok /\ a.val > e.val
               [] operator = "less_than" -> a.ok /\ e.ok /\ a.val < e.val
               [] operator = "greater_than_or_equal" -> a.ok /\ e.ok /\ a.val >= e.val
               [] operator = "less_than_or_equal" -> a.ok /\ e.ok /\ a.val <= e.val
               [] operator = "starts_with" ->
                    StartsWith(Lower(PyStr(actual_value)), Lower(PyStr(expected_value)))
               [] operator = "ends_with" ->
                    EndsWith(Lower(PyStr(actual_value)), Lower(PyStr(expected_value)))
               [] OTHER -> FALSE

\* crud.py:208-256: what evaluate_segment_condition returns when it returns.
evaluate_segment_condition(user_traits, condition) ==
    LET operator == condition.operator
        expected_value == condition.value
        actual_value == IF condition.field \in DOMAIN user_traits
                        THEN user_traits[condition.field] ELSE Absent
        a == ToFloat(actual_value)
        e == ToFloat(expected_value)
    IN  IF actual_value.t = "absent" THEN FALSE
        ELSE CASE operator = "equals" -> PyEq(actual_value, expected_value)
               [] operator = "not_equals" -> ~PyEq(actual_value, expected_value)
               [] operator = "contains" ->
                    Contains(Lower(PyStr(actual_value)), Lower(PyStr(expected_value)))
               [] operator = "not_contains" ->
                    ~Contains(Lower(PyStr(actual_value)), Lower(PyStr(expected_value)))
               [] operator = "in" ->
                    IF expected_value.t = "list" THEN PyIn(actual_value, expected_value)
                    ELSE FALSE
               [] operator = "not_in" ->
                    IF expected_value.t = "list" THEN ~PyIn(actual_value, expected_value)
                    ELSE TRUE
               [] operator = "greater_than" -> a.ok /\ e.ok /\ a.val > e.val
               [] operator = "less_than" -> a.ok /\ e.ok /\ a.val < e.val
               [] operator = "greater_than_or_equal" -> a.ok /\ e.ok /\ a.val >= e.val
               [] operator = "less_than_or_equal" -> a.ok /\ e.ok /\ a.val <= e.val
               [] operator = "starts_with" ->
                    StartsWith(Lower(PyStr(actual_value)), Lower(PyStr(expected_value)))
               [] operator = "ends_with" ->
                    EndsWith(Lower(PyStr(actual_value)), Lower(PyStr(expected_value)))
               [] OTHER -> FALSE

----------------------------------------------------------------------------
(* Segments and flag-segment associations *)

SegmentRow(n, cs) == [name |-> n, conditions |-> cs]

\* segment_id, enabled, rollout_percentage (percent) and priority are the
\* request's (schemas.py:51-55).
FlagSegmentRow(f, sid, en, pct, prio) ==
    [flag_id |-> f, segment_id |-> sid, enabled |-> en,
     rollout_percentage |-> pct, priority |-> prio]

\* The traits of a flag evaluation: the query parameters, all strings
\* (main.py:210-214).
Traits(user_attrs) ==
    [f \in Fields |-> IF user_attrs[f] = NULL THEN Absent ELSE Str(user_attrs[f])]

\* A listing in insertion order, without ORDER BY.
ListedBefore_insertion(i, j) == i < j

\* crud.py:196-204.  ORDER BY priority DESC: before(i, j) says row i is listed
\* before row j.  SQL leaves the order of rows with equal priority to the
\* store; tie_order is the store's choice.
ListedBefore(i, j) ==
    \/ flag_segments[i].priority > flag_segments[j].priority
    \/ /\ flag_segments[i].priority = flag_segments[j].priority
       /\ IF tie_order = "asc" THEN i < j ELSE i > j

RECURSIVE OrderRows(_)
OrderRows(ids) ==
    IF ids = {} THEN <<>>
    ELSE LET first == CHOOSE i \in ids : \A j \in ids \ {i} : ListedBefore(i, j)
         IN  <<first>> \o OrderRows(ids \ {first})

get_flag_segments(flag_id) ==
    OrderRows({i \in DOMAIN flag_segments : flag_segments[i].flag_id = flag_id})

\* crud.py:269-271: the exception that leaves evaluate_user_segment, NULL when
\* it returns: that of the first condition that raises, the conditions
\* before it holding.
segment_raises(segment_id, traits) ==
    IF segment_id \notin DOMAIN segments THEN NULL
    ELSE LET cs == segments[segment_id].conditions
             hit == {k \in DOMAIN cs :
                       /\ condition_raises(traits, cs[k]) # NULL
                       /\ \A m \in 1..(k - 1) :
                             /\ condition_raises(traits, cs[m]) = NULL
                             /\ evaluate_segment_condition(traits, cs[m])}
         IN  IF hit = {} THEN NULL
             ELSE condition_raises(traits, cs[CHOOSE k \in hit : TRUE])

\* A segment that matches when some condition holds.
evaluate_user_segment_any(segment_id, traits) ==
    IF segment_id \notin DOMAIN segments THEN FALSE
    ELSE \/ segments[segment_id].conditions = <<>>
         \/ \E k \in DOMAIN segments[segment_id].conditions :
               evaluate_segment_condition(traits, segments[segment_id].conditions[k])

\* crud.py:258-273: what evaluate_user_segment returns when it returns.
evaluate_user_segment(segment_id, traits) ==
    IF segment_id \notin DOMAIN segments THEN FALSE
    ELSE \A k \in DOMAIN segments[segment_id].conditions :
            evaluate_segment_condition(traits, segments[segment_id].conditions[k])

\* crud.py:275-284: the enabled associations whose segment matches, in the
\* order of get_flag_segments.
RECURSIVE KeepMatching(_, _)
KeepMatching(rows, traits) ==
    IF rows = <<>> THEN <<>>
    ELSE LET fs == flag_segments[Head(rows)]
             rest == KeepMatching(Tail(rows), traits)
         IN  IF fs.enabled /\ evaluate_user_segment(fs.segment_id, traits)
             THEN <<Head(rows)>> \o rest
             ELSE rest

\* A resolver that consults the associations only while the exposure log is
\* empty.
find_matching_segments_fresh(flag_id, traits) ==
    IF flag_exposures = <<>>
    THEN KeepMatching(get_flag_segments(flag_id), traits)
    ELSE <<>>

find_matching_segments(flag_id, traits) ==
    KeepMatching(get_flag_segments(flag_id), traits)

----------------------------------------------------------------------------
(* Flag evaluation *)

Modulus == 10000

\* int(sha256(user_id).hexdigest(), 16) % 10000 (main.py:224-225, 246-247) of
\* the user ids of the model.
Sha256Mod ==
    [u \in {"user-2781", "user-42", "user-1457"} |->
        CASE u = "user-2781" -> 0 [] u = "user-42" -> 3479 [] OTHER -> 9999]

\* A bucket in 1..10000 instead of 0..9999.
Bucket_from_one(user_id) == (Sha256Mod[user_id] % Modulus) + 1

\* normalized, as the numerator of k / 10000.0.
Bucket(user_id) == Sha256Mod[user_id] % Modulus

\* normalized < rollout_percentage / 100.0 (main.py:226).
UnderPercentage(user_id, rollout_percentage) ==
    Bucket(user_id) < rollout_percentage * (Modulus \div 100)

\* A rollout comparison with <= instead of <.
UnderRollout_inclusive(user_id, rollout) == Bucket(user_id) <= rollout

\* normalized < flag.rollout (main.py:248), the rollout in ten-thousandths.
UnderRollout(user_id, rollout) == Bucket(user_id) < rollout

\* A lookup that returns the first flag whatever the name.
get_flag_by_name_any(name) == IF flags = <<>> THEN 0 ELSE 1

\* crud.py:12-18.
get_flag_by_name(name) ==
    IF \E f \in DOMAIN flags : flags[f].name = name
    THEN CHOOSE f \in DOMAIN flags : flags[f].name = name
    ELSE 0

\* main.py:216-243: the exception that leaves evaluate_flag before a decision,
\* NULL when there is none.  find_matching_segments evaluates the segment of
\* every enabled association in the listed order; the rules are read only
\* when no association matched.
flag_raises(flag_id, user_attrs) ==
    LET rows == get_flag_segments(flag_id)
        raising == {k \in DOMAIN rows :
                       /\ flag_segments[rows[k]].enabled
                       /\ segment_raises(flag_segments[rows[k]].segment_id,
                                         Traits(user_attrs)) # NULL}
        first == CHOOSE k \in raising : \A m \in raising : k <= m
        rules == flags[flag_id].rules
    IN  IF raising # {}
        THEN segment_raises(flag_segments[rows[first]].segment_id, Traits(user_attrs))
        ELSE IF rules # <<>> /\ find_matching_segments(flag_id, Traits(user_attrs)) = <<>>
             THEN rules_raises(rules, user_attrs)
             ELSE NULL

\* An exposure row that drops the segment.
FlagExposureRow_without_segment(flag_id, flag_name, user_id, enabled, segment_id) ==
    [flag_id |-> flag_id, flag_name |-> flag_name, user_id |-> user_id,
     enabled |-> IF enabled THEN "true" ELSE "false", segment_id |-> 0]

\* crud.py:76-87.  segment_id 0 is None.
FlagExposureRow(flag_id, flag_name, user_id, enabled, segment_id) ==
    [flag_id |-> flag_id, flag_name |-> flag_name, user_id |-> user_id,
     enabled |-> IF enabled THEN "true" ELSE "false", segment_id |-> segment_id]

\* A decision that runs the rule gate before the segments.
Decide_rules_first(flag_id, user_id, user_attrs) ==
    LET matching_segments == find_matching_segments(flag_id, Traits(user_attrs))
        rules == flags[flag_id].rules
    IN  IF rules # <<>> /\ ~evaluate_rules(rules, user_attrs)
        THEN [path |-> "rules", enabled |-> FALSE, segment_id |-> 0]
        ELSE IF matching_segments # <<>>
             THEN LET selected_segment == flag_segments[matching_segments[1]]
                  IN  [path |-> "segment",
                       enabled |-> UnderPercentage(user_id,
                                       selected_segment.rollout_percentage),
                       segment_id |-> selected_segment.segment_id]
             ELSE [path |-> "rollout",
                   enabled |-> UnderRollout(user_id, flags[flag_id].rollout),
                   segment_id |-> 0]

\* main.py:216-253 for an existing flag: the decision and the segment logged.
Decide(flag_id, user_id, user_attrs) ==
    LET matching_segments == find_matching_segments(flag_id, Traits(user_attrs))
        rules == flags[flag_id].rules
    IN  IF matching_segments # <<>>
        THEN LET selected_segment == flag_segments[matching_segments[1]]
             IN  [path |-> "segment",
                  enabled |-> UnderPercentage(user_id, selected_segment.rollout_percentage),
                  segment_id |-> selected_segment.segment_id]
        ELSE IF rules # <<>> /\ ~evaluate_rules(rules, user_attrs)
             THEN [path |-> "rules", enabled |-> FALSE, segment_id |-> 0]
             ELSE [path |-> "rollout",
                   enabled |-> UnderRollout(user_id, flags[flag_id].rollout),
                   segment_id |-> 0]

\* main.py:204-253.  GET /flags/{flag_name}?user_id=..[&country=..]
\* An exception that leaves the handler is answered 500, nothing logged.
evaluate_flag(flag_name, user_id, country) ==
    LET flag_id == get_flag_by_name(flag_name)
    IN  /\ IF flag_id = 0
           THEN /\ resp' = [flag |-> flag_name, user_id |-> user_id,
                            country |-> country,
                            status |-> 404, path |-> NULL, enabled |-> FALSE]
                /\ UNCHANGED flag_exposures
           ELSE IF flag_raises(flag_id, FlagAttrs(user_id, country)) # NULL
           THEN /\ resp' = [flag |-> flag_name, user_id |-> user_id,
                            country |-> country,
                            status |-> 500, path |-> NULL, enabled |-> FALSE]
                /\ UNCHANGED flag_exposures
           ELSE /\ Len(flag_exposures) < MaxFlagExposures
                /\ \E d \in {Decide(flag_id, user_id, FlagAttrs(user_id, country))} :
                      /\ flag_exposures' = Append(flag_exposures,
                             FlagExposureRow(flag_id, flags[flag_id].name, user_id,
                                             d.enabled, d.segment_id))
                      /\ resp' = [flag |-> flag_name, user_id |-> user_id,
                                  country |-> country, status |-> 200,
                                  path |-> d.path, enabled |-> d.enabled]
        /\ UNCHANGED <<flags, segments, deleted_segments, flag_segments, tie_order>>
        /\ UNCHANGED exp_vars
        /\ UNCHANGED <<config_vars, probe>>

\* The experiment store is idle in the flag specification.
ExperimentStoreIdle ==
    /\ experiments = <<>>
    /\ variants = <<>>
    /\ user_assignments = <<>>
    /\ exposures = <<>>
    /\ call = [w \in Workers |-> Idle]
    /\ response = NoResponse
    /\ first_returned = <<>>

EvaluationUsers == {"user-2781", "user-1457"}
FlagCountries == {NULL, "US", "CA"}
FlagNames == {"beta_ui", "no_such_flag"}

\* Segments create_user_segment (crud.py:104-116) has stored: 1 matches every
\* subject, 2 the subjects whose country is US.
SegmentTable ==
    <<SegmentRow("everyone", <<>>),
      SegmentRow("us", <<Condition("country", "equals", Str("US"))>>)>>

\* The tables that up to n calls of add_segment_to_flag with different inputs
\* leave, in every order of the calls.
RECURSIVE Tables(_)
Tables(n) ==
    IF n = 0 THEN {<<>>}
    ELSE LET shorter == Tables(n - 1)
             Used(t) == {t[i] : i \in DOMAIN t}
         IN  shorter \cup
             \* Associations add_segment_to_flag (crud.py:165-177) is asked to store.
             UNION {{Append(t, a) : a \in ({ FlagSegmentRow(1, 1, TRUE, 50, 5),
                                             FlagSegmentRow(1, 2, TRUE, 100, 10),
                                             FlagSegmentRow(1, 2, TRUE, 0, 10),
                                             FlagSegmentRow(1, 1, FALSE, 100, 20) }) \ Used(t)} :
                       t \in {x \in shorter : Len(x) = n - 1}}

\* The database after create_flag, create_user_segment and up to MaxAssociations
\* calls of add_segment_to_flag, in any order.
\* Rule lists a flag may have been created with (main.py:109-118: op and
\* value are not validated).
InitFlag ==
    /\ \E r \in ({0, 3000, 10000}), rs \in ({ <<>>,
                                    <<Rule("country", "eq", "US")>>,
                                    <<Rule("country", "ne", "US"), Rule("country", "lt", "US")>>,
                                    <<Rule("country", "gt", "CA"), Rule("plan", "eq", "premium")>> }) :
          flags = [f \in FlagIds |-> FlagRow("beta_ui", r, rs)]
    /\ segments = SegmentTable
    /\ deleted_segments = {}
    /\ flag_segments \in Tables(MaxAssociations)
    /\ tie_order \in {"asc", "desc"}
    \* Some rows of flag_segments have the same flag and priority: only then has
    \* the store an order to choose.
    /\ ~(\E i, j \in DOMAIN flag_segments :
             /\ i # j
             /\ flag_segments[i].flag_id = flag_segments[j].flag_id
             /\ flag_segments[i].priority = flag_segments[j].priority) => tie_order = "asc"
    /\ flag_exposures = <<>>
    /\ resp = NoFlagResponse
    /\ ConfigStoreIdle
    /\ probe = NoProbe
    /\ ExperimentStoreIdle

NextFlag ==
    \E flag_name \in FlagNames, user_id \in EvaluationUsers, country \in FlagCountries :
        evaluate_flag(flag_name, user_id, country)

SpecFlag == InitFlag /\ [][NextFlag]_vars

----------------------------------------------------------------------------
(* Remote config values *)

\* A result of float() beside those of the tags above: a Python float, in
\* tenths.  A decoded JSON object has the tag dict.
Float(tenths) == [t |-> "float", v |-> tenths]

\* A text of 1000 opening brackets.
DeepJson == "[[[[ ... 1000 times"

\* `"." in value` (crud.py:405).
HasDot(value) == value = "3.5"

\* int(value) on a text without ".": 0 where Python raises ValueError.
IntOf(value) ==
    CASE value = "42" -> [raised |-> NULL, value |-> Num(42)]
      [] value = "0" -> [raised |-> NULL, value |-> Num(0)]
      [] OTHER -> [raised |-> "ValueError", value |-> None]

\* float(value) on a text with ".".
FloatOf(value) ==
    CASE value = "3.5" -> [raised |-> NULL, value |-> Float(35)]
      [] OTHER -> [raised |-> "ValueError", value |-> None]

\* json.loads(value): the decoded value, JSONDecodeError (a ValueError) on a
\* text that is not JSON, RecursionError on one nested too deep.
JsonLoads(value) ==
    CASE value = "42" -> [raised |-> NULL, value |-> Num(42)]
      [] value = "0" -> [raised |-> NULL, value |-> Num(0)]
      [] value = "3.5" -> [raised |-> NULL, value |-> Float(35)]
      [] value = "1e5" -> [raised |-> NULL, value |-> Float(1000000)]
      [] value = "{\"a\": 1}" -> [raised |-> NULL, value |-> [t |-> "dict", v |-> "a: 1"]]
      [] value = DeepJson -> [raised |-> "RecursionError", value |-> None]
      [] OTHER -> [raised |-> "JSONDecodeError", value |-> None]

\* crud.py:398-420.  raised names the exception that leaves the function.
parse_config_value(value, value_type) ==
    LET returns(x) == [raised |-> NULL, value |-> x]
    IN  CASE value_type = "string" -> returns(Str(value))
          [] value_type = "number" ->
                LET n == IF HasDot(value) THEN FloatOf(value) ELSE IntOf(value)
                IN  IF n.raised = "ValueError" THEN returns(Str(value)) ELSE n
          [] value_type = "boolean" ->
                returns(Bool(Lower(value) \in {"true", "1", "yes", "on"}))
          [] value_type = "json" ->
                LET j == JsonLoads(value)
                IN  IF j.raised \in {"JSONDecodeError", "ValueError"}
                    THEN returns(Str(value))
                    ELSE j
          [] OTHER -> returns(Str(value))

----------------------------------------------------------------------------
(* Remote config evaluation *)

ConfigRow(key, value_type, default_value) ==
    [key |-> key, value_type |-> value_type, default_value |-> default_value]

\* segment_id, value, enabled and priority are the request's
\* (schemas.py:103-107).
ConfigSegmentRow(c, sid, value, en, prio) ==
    [config_id |-> c, segment_id |-> sid, value |-> value, enabled |-> en,
     priority |-> prio]

\* A listing of the config associations in insertion order, without ORDER BY.
ConfigListedBefore_insertion(i, j) == i < j

\* crud.py:386-394.  ORDER BY priority DESC, rows of equal priority in the
\* order the store chooses.
ConfigListedBefore(i, j) ==
    \/ config_segments[i].priority > config_segments[j].priority
    \/ /\ config_segments[i].priority = config_segments[j].priority
       /\ IF tie_order = "asc" THEN i < j ELSE i > j

RECURSIVE OrderConfigRows(_)
OrderConfigRows(ids) ==
    IF ids = {} THEN <<>>
    ELSE LET first == CHOOSE i \in ids : \A j \in ids \ {i} : ConfigListedBefore(i, j)
         IN  <<first>> \o OrderConfigRows(ids \ {first})

get_config_segments(config_id) ==
    OrderConfigRows({i \in DOMAIN config_segments :
                        config_segments[i].config_id = config_id})

\* crud.py:422-431.
RECURSIVE KeepMatchingConfig(_, _)
KeepMatchingConfig(rows, traits) ==
    IF rows = <<>> THEN <<>>
    ELSE LET cs == config_segments[Head(rows)]
             rest == KeepMatchingConfig(Tail(rows), traits)
         IN  IF cs.enabled /\ evaluate_user_segment(cs.segment_id, traits)
             THEN <<Head(rows)>> \o rest
             ELSE rest

\* A search that returns the disabled associations too.
find_matching_config_segments_all(config_id, traits) ==
    SelectSeq(get_config_segments(config_id),
              LAMBDA i : evaluate_user_segment(config_segments[i].segment_id, traits))

find_matching_config_segments(config_id, traits) ==
    KeepMatchingConfig(get_config_segments(config_id), traits)

\* crud.py:301-308.
get_remote_config_by_key(key) ==
    IF \E c \in DOMAIN remote_configs : remote_configs[c].key = key
    THEN CHOOSE c \in DOMAIN remote_configs : remote_configs[c].key = key
    ELSE 0

\* crud.py:479-490.  segment_id 0 is None.
ConfigExposureRow(config_id, config_key, user_id, value, segment_id) ==
    [config_id |-> config_id, config_key |-> config_key, user_id |-> user_id,
     value |-> value, segment_id |-> segment_id]

\* crud.py:422-431: the exception that leaves find_matching_config_segments,
\* NULL when it returns: that of the first enabled association, in the listed
\* order, whose segment raises.
config_raises(config_id, user_attrs) ==
    LET rows == get_config_segments(config_id)
        raising == {k \in DOMAIN rows :
                       /\ config_segments[rows[k]].enabled
                       /\ segment_raises(config_segments[rows[k]].segment_id,
                                         Traits(user_attrs)) # NULL}
        first == CHOOSE k \in raising : \A m \in raising : k <= m
    IN  IF raising # {}
        THEN segment_raises(config_segments[rows[first]].segment_id, Traits(user_attrs))
        ELSE NULL

\* crud.py:440-455 for an existing config: the raw value, the segment that
\* gave it and the parsed value.
Resolve(config_id, user_attrs) ==
    LET matching_segments == find_matching_config_segments(config_id, Traits(user_attrs))
        selected_segment == config_segments[matching_segments[1]]
        value == IF matching_segments # <<>> THEN selected_segment.value
                 ELSE remote_configs[config_id].default_value
    IN  [value |-> value,
         segment_id |-> IF matching_segments # <<>>
                        THEN selected_segment.segment_id ELSE 0,
         segment_name |-> IF matching_segments # <<>>
                          THEN segments[selected_segment.segment_id].name ELSE NULL,
         parsed |-> parse_config_value(value, remote_configs[config_id].value_type)]

\* main.py:657-676 with crud.py:433-466.
\* GET /configs/evaluate/{config_key}?user_id=..[&country=..]
evaluate_config(config_key, user_id, country) ==
    LET config_id == get_remote_config_by_key(config_key)
        answer(status, parsed, value_type, segment_id, segment_name) ==
            [key |-> config_key, user_id |-> user_id, country |-> country,
             status |-> status, value |-> parsed, value_type |-> value_type,
             segment_id |-> segment_id, segment_name |-> segment_name]
    IN  /\ IF config_id = 0
           THEN /\ cresp' = answer(404, None, NULL, 0, NULL)
                /\ UNCHANGED config_exposures
           ELSE IF config_raises(config_id, FlagAttrs(user_id, country)) # NULL
           THEN /\ cresp' = answer(500, None, NULL, 0, NULL)
                /\ UNCHANGED config_exposures
           ELSE \E r \in {Resolve(config_id, FlagAttrs(user_id, country))} :
                   IF r.parsed.raised # NULL
                   THEN /\ cresp' = answer(500, None, NULL, 0, NULL)
                        /\ UNCHANGED config_exposures
                   ELSE /\ Len(config_exposures) < MaxConfigExposures
                        /\ config_exposures' = Append(config_exposures,
                               ConfigExposureRow(config_id, remote_configs[config_id].key,
                                                 user_id, r.value, r.segment_id))
                        /\ cresp' = answer(200, r.parsed.value,
                                           remote_configs[config_id].value_type,
                                           r.segment_id, r.segment_name)
        /\ UNCHANGED <<remote_configs, config_segments, segments, deleted_segments, tie_order, probe>>
        /\ UNCHANGED <<flags, flag_segments, flag_exposures, resp>>
        /\ UNCHANGED exp_vars

ConfigKeys == {"theme", "no_such_config"}

\* main.py:475-479 and 596-600: a value is stored only if parsing it for the
\* config's type raises nothing.
Accepted(value, value_type) == parse_config_value(value, value_type).raised = NULL

\* The tables that up to n accepted calls of add_segment_to_config with
\* different inputs leave, in every order of the calls.
RECURSIVE ConfigTables(_, _)
ConfigTables(n, value_type) ==
    IF n = 0 THEN {<<>>}
    ELSE LET shorter == ConfigTables(n - 1, value_type)
             Used(t) == {t[i] : i \in DOMAIN t}
             \* Associations add_segment_to_config (main.py:583-615) is asked to store.
             accepted == {a \in ({ ConfigSegmentRow(1, 1, "abc", TRUE, 5),
                                   ConfigSegmentRow(1, 2, "42", TRUE, 10),
                                   ConfigSegmentRow(1, 2, "3.5", TRUE, 10),
                                   ConfigSegmentRow(1, 1, "True", FALSE, 20) }) : Accepted(a.value, value_type)}
         IN  shorter \cup
             UNION {{Append(t, a) : a \in accepted \ Used(t)} :
                       t \in {x \in shorter : Len(x) = n - 1}}

\* The database after an accepted create_remote_config, create_user_segment
\* and up to MaxAssociations accepted calls of add_segment_to_config.
\* Configs create_remote_config (main.py:457-497) is asked to store.
InitConfig ==
    /\ \E c \in {x \in ({ ConfigRow("theme", "string", "abc"),
                          ConfigRow("theme", "number", "42"),
                          ConfigRow("theme", "number", "1e5"),
                          ConfigRow("theme", "boolean", "yes"),
                          ConfigRow("theme", "json", "{bad"),
                          ConfigRow("theme", "json", "{\"a\": 1}"),
                          ConfigRow("theme", "json", DeepJson) }) : Accepted(x.default_value, x.value_type)} :
          /\ remote_configs = <<c>>
          /\ config_segments \in ConfigTables(MaxAssociations, c.value_type)
    /\ segments = SegmentTable
    /\ deleted_segments = {}
    /\ tie_order \in {"asc", "desc"}
    /\ ~(\E i, j \in DOMAIN config_segments :
             /\ i # j
             /\ config_segments[i].config_id = config_segments[j].config_id
             /\ config_segments[i].priority = config_segments[j].priority) => tie_order = "asc"
    /\ config_exposures = <<>>
    /\ cresp = NoConfigResponse
    /\ probe = NoProbe
    /\ flags = <<>>
    /\ flag_segments = <<>>
    /\ flag_exposures = <<>>
    /\ resp = NoFlagResponse
    /\ ExperimentStoreIdle

NextConfig ==
    \E config_key \in ConfigKeys, user_id \in EvaluationUsers, country \in Countries :
        evaluate_config(config_key, user_id, country)

SpecConfig == InitConfig /\ [][NextConfig]_vars

----------------------------------------------------------------------------
(* The evaluators applied to drawn inputs, one application in a behaviour:    *)
(* probe keeps the function, its arguments and what it gave.                 *)

Applied(fn, args, out) ==
    /\ probe = NoProbe
    /\ probe' = [fn |-> fn, args |-> args, out |-> out]
    /\ UNCHANGED <<flags, segments, deleted_segments, flag_segments, tie_order, flag_exposures, resp>>
    /\ UNCHANGED config_vars
    /\ UNCHANGED exp_vars

\* Traits of a subject as a JSON body gives them (UserContext.traits,
\* schemas.py:79-82): strings, numbers, booleans, null.
TraitFields == {"age", "country", "beta_user", "signup_date"}

\* The values drawn for age, for country, and for beta_user with signup_date.
Ages == <<Absent, Str("25"), Num(25), Num(18), Str("abc"), None, BigInt>>
TraitCountries == <<Absent, Str("US"), Str("CA")>>
Signups ==
    << <<Absent, Absent>>,
       <<Bool(TRUE), Str("2024-06-15")>>,
       <<Bool(TRUE), Str("2023-12-31")>>,
       <<Bool(FALSE), Str("2024-06-15")>> >>

DrawnTraits(a, c, s) ==
    LET all == [f \in TraitFields |->
                   CASE f = "age" -> Ages[a]
                     [] f = "country" -> TraitCountries[c]
                     [] f = "beta_user" -> Signups[s][1]
                     [] OTHER -> Signups[s][2]]
    IN  [f \in {g \in TraitFields : all[g].t # "absent"} |-> all[f]]

ConditionValues ==
    << Str("US"), Str("18"), Num(18), Bool(TRUE), None, BigInt, Str("2024-01-01"),
       List(<<Str("US"), Str("CA")>>), List(<<Num(25), None>>) >>

\* evaluate_segment_condition (crud.py:208-256) on a condition and traits.
ApplyCondition(field, operator, value, traits) ==
    LET condition == Condition(field, operator, value)
    IN  Applied("evaluate_segment_condition",
                [condition |-> condition, traits |-> traits],
                [raised |-> condition_raises(traits, condition),
                 value |-> evaluate_segment_condition(traits, condition)])

\* evaluate_user_segment (crud.py:258-273) and find_matching_segments
\* (crud.py:275-284) on the stored segments and associations.
ApplySegment(segment_id, traits) ==
    Applied("evaluate_user_segment",
            [segment_id |-> segment_id, traits |-> traits],
            [raised |-> segment_raises(segment_id, traits),
             value |-> evaluate_user_segment(segment_id, traits),
             matching |-> find_matching_segments(1, traits)])

\* parse_config_value (crud.py:398-420).
ApplyParse(value, value_type) ==
    Applied("parse_config_value",
            [value |-> value, value_type |-> value_type],
            parse_config_value(value, value_type))

\* The two rule checks on the same rules and attributes: evaluate_flag_rules
\* (experiments/crud.py:188-203) as the gate uses it (experiments/crud.py:69),
\* evaluate_rules (main.py:188-201) as the flag evaluator uses it
\* (main.py:240): no rules, or some rule satisfied.
ApplyRules(rules, attrs) ==
    Applied("rules",
            [rules |-> rules, attrs |-> attrs],
            [gate |-> evaluate_flag_rules(rules, attrs),
             flag |-> rules = <<>> \/ evaluate_rules(rules, attrs)])

\* Segments stored by create_user_segment: everyone, US subjects, adults from
\* the US, and the beta users of test_segments.py:45-48.
PureSegmentTable ==
    <<SegmentRow("everyone", <<>>),
      SegmentRow("us", <<Condition("country", "equals", Str("US"))>>),
      SegmentRow("us adults", <<Condition("country", "equals", Str("US")),
                                Condition("age", "greater_than_or_equal", Num(18))>>),
      SegmentRow("Beta Users", <<Condition("beta_user", "equals", Bool(TRUE)),
                                 Condition("signup_date", "greater_than",
                                           Str("2024-01-01"))>>)>>

\* Rule lists of a flag, and the attributes of a request.
PureRules ==
    {Rule("country", op, v) : op \in {"eq", "ne", "gt", "lt"}, v \in {"US", "CA"}}

InitPure ==
    /\ probe = NoProbe
    /\ segments = PureSegmentTable
    /\ deleted_segments = {}
    /\ flag_segments = <<FlagSegmentRow(1, 4, TRUE, 100, 5)>>
    /\ tie_order = "asc"
    /\ flags = <<>>
    /\ flag_exposures = <<>>
    /\ resp = NoFlagResponse
    /\ ConfigStoreIdle
    /\ ExperimentStoreIdle

\* One application: nothing has been applied yet.
NextPure ==
    /\ probe = NoProbe
    \* Operators and comparison values of segment conditions (crud.py:219-256).
    /\ \/ \E field \in TraitFields, operator \in ({"equals", "not_equals", "contains", "not_contains", "in", "not_in",
                                                   "starts_with", "ends_with"} \cup NumericOperators) \cup {"matches"},
             v \in DOMAIN ConditionValues,
             a \in DOMAIN Ages, c \in DOMAIN TraitCountries, s \in DOMAIN Signups :
               ApplyCondition(field, operator, ConditionValues[v], DrawnTraits(a, c, s))
       \/ \E segment_id \in (DOMAIN PureSegmentTable) \cup {5},
             a \in DOMAIN Ages, c \in DOMAIN TraitCountries, s \in DOMAIN Signups :
               ApplySegment(segment_id, DrawnTraits(a, c, s))
       \* The config texts of the model.
       \/ \E value \in ({"42", "3.5", "1e5", "abc", "True", "yes", "0", "{bad", "{\"a\": 1}", DeepJson}), value_type \in ({"string", "number", "boolean", "json"}) \cup {"text"} :
             ApplyParse(value, value_type)
       \/ \E rules \in ({<<>>} \cup {<<r>> : r \in PureRules} \cup {<<r, q>> : r, q \in PureRules}), country \in Countries \cup {"CA"} :
             ApplyRules(rules, AssignAttrs(country))

SpecPure == InitPure /\ [][NextPure]_vars

----------------------------------------------------------------------------
(* Evaluation of a flag and of a config whose associations are removed *)

\* The sequence without its k-th element.
Without(s, k) == SubSeq(s, 1, k - 1) \o SubSeq(s, k + 1, Len(s))

\* The answers of the two DELETE endpoints: 200, 404 when no association is
\* found, 500 when scalar_one_or_none finds more than one.
FlagRemoval(status) == [NoFlagResponse EXCEPT !.status = status]
ConfigRemoval(status) == [NoConfigResponse EXCEPT !.status = status]

\* main.py:403-410 with crud.py:179-194.
\* DELETE /flags/{flag_id}/segments/{segment_id}
remove_segment_from_flag(flag_id, segment_id) ==
    LET found == {i \in DOMAIN flag_segments :
                     /\ flag_segments[i].flag_id = flag_id
                     /\ flag_segments[i].segment_id = segment_id}
    IN  /\ IF found = {}
           THEN /\ resp' = FlagRemoval(404)
                /\ UNCHANGED flag_segments
           ELSE IF Cardinality(found) > 1
                THEN /\ resp' = FlagRemoval(500)
                     /\ UNCHANGED flag_segments
                ELSE /\ flag_segments' = Without(flag_segments, CHOOSE i \in found : TRUE)
                     /\ resp' = FlagRemoval(200)
        /\ UNCHANGED <<flags, segments, deleted_segments, tie_order, flag_exposures>>
        /\ UNCHANGED exp_vars
        /\ UNCHANGED <<config_vars, probe>>

\* main.py:617-624 with crud.py:369-384.
\* DELETE /configs/{config_id}/segments/{segment_id}
remove_segment_from_config(config_id, segment_id) ==
    LET found == {i \in DOMAIN config_segments :
                     /\ config_segments[i].config_id = config_id
                     /\ config_segments[i].segment_id = segment_id}
    IN  /\ IF found = {}
           THEN /\ cresp' = ConfigRemoval(404)
                /\ UNCHANGED config_segments
           ELSE IF Cardinality(found) > 1
                THEN /\ cresp' = ConfigRemoval(500)
                     /\ UNCHANGED config_segments
                ELSE /\ config_segments' = Without(config_segments, CHOOSE i \in found : TRUE)
                     /\ cresp' = ConfigRemoval(200)
        /\ UNCHANGED <<remote_configs, config_exposures, segments, deleted_segments, tie_order, probe>>
        /\ UNCHANGED <<flags, flag_segments, flag_exposures, resp>>
        /\ UNCHANGED exp_vars

SingleUser == {"user-2781"}

InitRemoval ==
    /\ \E rs \in {<<>>, <<Rule("country", "eq", "CA")>>} :
          flags = [f \in FlagIds |-> FlagRow("beta_ui", 3000, rs)]
    /\ segments = SegmentTable
    /\ deleted_segments = {}
    \* Tables add_segment_to_flag has left: segment 1, which matches everyone, is
    \* associated disabled with the highest priority; segment 2 (country US) may
    \* be associated enabled, at 0 or at 100 percent, before or after it.
    /\ flag_segments \in (LET disabled == FlagSegmentRow(1, 1, FALSE, 100, 20)
                              us == {FlagSegmentRow(1, 2, TRUE, 0, 10), FlagSegmentRow(1, 2, TRUE, 100, 10)}
                          IN  {<<disabled>>} \cup {<<disabled, a>> : a \in us} \cup {<<a, disabled>> : a \in us})
    /\ tie_order = "asc"
    /\ flag_exposures = <<>>
    /\ resp = NoFlagResponse
    /\ remote_configs = <<ConfigRow("theme", "string", "abc")>>
    \* The same for add_segment_to_config, on a config of type string.
    /\ config_segments \in (LET disabled == ConfigSegmentRow(1, 1, "True", FALSE, 20)
                                us == ConfigSegmentRow(1, 2, "42", TRUE, 10)
                            IN  {<<disabled>>, <<disabled, us>>, <<us, disabled>>})
    /\ config_exposures = <<>>
    /\ cresp = NoConfigResponse
    /\ probe = NoProbe
    /\ ExperimentStoreIdle

NextRemoval ==
    \/ \E user_id \in SingleUser, country \in Countries :
          evaluate_flag("beta_ui", user_id, country)
    \/ \E user_id \in SingleUser, country \in Countries :
          evaluate_config("theme", user_id, country)
    \/ \E segment_id \in DOMAIN segments : remove_segment_from_flag(1, segment_id)
    \/ \E segment_id \in DOMAIN segments : remove_segment_from_config(1, segment_id)

SpecRemoval == InitRemoval /\ [][NextRemoval]_vars

----------------------------------------------------------------------------
(* Lookups by name: a flag, a config and an experiment in one store *)

\* The database after create_flag, create_remote_config, one experiment gated
\* by the flag (which has no rules) with two variants, and one association
\* of the segment matching everyone with the flag and with the config.
InitLookup ==
    /\ flags = [f \in FlagIds |-> FlagRow("beta_ui", 3000, <<>>)]
    /\ segments = SegmentTable
    /\ deleted_segments = {}
    /\ flag_segments = <<FlagSegmentRow(1, 1, TRUE, 50, 5)>>
    /\ tie_order = "asc"
    /\ flag_exposures = <<>>
    /\ resp = NoFlagResponse
    /\ remote_configs = <<ConfigRow("theme", "string", "abc")>>
    /\ config_segments = <<ConfigSegmentRow(1, 1, "abc", TRUE, 5)>>
    /\ config_exposures = <<>>
    /\ cresp = NoConfigResponse
    /\ probe = NoProbe
    /\ experiments = <<ExperimentRow("exp", 1)>>
    /\ variants = <<VariantRow(1, "control", 50), VariantRow(1, "treatment", 50)>>
    /\ user_assignments = <<>>
    /\ exposures = <<>>
    /\ call = [w \in Workers |-> Idle]
    /\ response = NoResponse
    /\ first_returned = [x \in (DOMAIN experiments) \X AssignUsers |-> 0]

NextLookup ==
    \/ \E flag_name \in FlagNames, user_id \in SingleUser :
          evaluate_flag(flag_name, user_id, NULL)
    \/ \E config_key \in ConfigKeys, user_id \in SingleUser :
          evaluate_config(config_key, user_id, NULL)
    \/ \E w \in Workers, name \in ExperimentNames, user_id \in SingleUser :
          AssignRequest(w, "assign", name, user_id, NULL)
    \/ \E w \in Workers : AssignCommit(w)

SpecLookup == InitLookup /\ [][NextLookup]_vars

----------------------------------------------------------------------------
(* Evaluation over stored data of odd shapes *)

\* Values of the country query parameter: absent, a word, digits.
ShapeCountries == {NULL, "US", "25"}

\* Segments whose condition value is null, not a number, not a list, or an
\* integer too large for a float (conditions is a JSON column, models.py:32).
ShapeSegmentTable ==
    <<SegmentRow("null", <<Condition("country", "equals", None)>>),
      SegmentRow("text", <<Condition("country", "greater_than", Str("abc"))>>),
      SegmentRow("scalar", <<Condition("country", "not_in", Str("US"))>>),
      SegmentRow("huge", <<Condition("country", "less_than", BigInt)>>)>>

\* Rules create_flag stores as given (main.py:109-112, crud.py:36-42): the
\* value may be null.
InitShape ==
    /\ \E rs \in ({ <<Rule("country", "eq", NULL)>>,
                    <<Rule("country", "ne", NULL)>>,
                    <<Rule("country", "gt", NULL)>> }) :
          flags = [f \in FlagIds |-> FlagRow("beta_ui", 10000, rs)]
    /\ segments = ShapeSegmentTable
    /\ deleted_segments = {}
    \* Configs whose default value is not parseable for the declared type; the
    \* endpoint stores them, parse_config_value falling back to the text.
    /\ \E c \in {x \in ({ ConfigRow("theme", "number", "abc"),
                          ConfigRow("theme", "boolean", "abc"),
                          ConfigRow("theme", "json", "{bad") }) : Accepted(x.default_value, x.value_type)} :
          remote_configs = <<c>>
    /\ \/ flag_segments = <<>> /\ config_segments = <<>>
       \/ \E k \in DOMAIN ShapeSegmentTable :
             /\ flag_segments = <<FlagSegmentRow(1, k, TRUE, 100, 10)>>
             /\ config_segments = <<ConfigSegmentRow(1, k, "abc", TRUE, 10)>>
    /\ tie_order = "asc"
    /\ flag_exposures = <<>>
    /\ resp = NoFlagResponse
    /\ config_exposures = <<>>
    /\ cresp = NoConfigResponse
    /\ probe = NoProbe
    /\ ExperimentStoreIdle

NextShape ==
    \/ \E user_id \in SingleUser, country \in ShapeCountries :
          evaluate_flag("beta_ui", user_id, country)
    \/ \E user_id \in SingleUser, country \in ShapeCountries :
          evaluate_config("theme", user_id, country)

SpecShape == InitShape /\ [][NextShape]_vars

----------------------------------------------------------------------------
(* Assignment over variant tables of several shapes *)

InitVariants ==
    /\ experiments \in ExperimentTables
    /\ flags = [f \in FlagIds |-> FlagRow("gate", 10000, <<>>)]
    \* Variant tables of experiment 1: empty, splits summing to 1.0, to less and
    \* to more, a first split of 0, and a row of another experiment in between.
    /\ variants \in ({ <<>>,
                       <<VariantRow(1, "control", 50), VariantRow(1, "treatment", 50)>>,
                       <<VariantRow(1, "control", 10), VariantRow(1, "treatment", 10)>>,
                       <<VariantRow(1, "control", 0), VariantRow(1, "treatment", 100)>>,
                       <<VariantRow(1, "control", 75), VariantRow(1, "treatment", 50)>>,
                       <<VariantRow(1, "control", 25), VariantRow(2, "other", 100),
                         VariantRow(1, "treatment", 25)>> })
    /\ user_assignments = <<>>
    /\ exposures = <<>>
    /\ call = [w \in Workers |-> Idle]
    /\ response = NoResponse
    /\ first_returned = [x \in (DOMAIN experiments) \X AssignUsers |-> 0]
    /\ FlagStoreIdle

NextVariants ==
    \/ \E w \in Workers, user_id \in AssignUsers :
          AssignRequest(w, "assign", "exp", user_id, NULL)
    \/ \E w \in Workers : AssignCommit(w)

SpecVariants == InitVariants /\ [][NextVariants]_vars

----------------------------------------------------------------------------
(* Adding and removing the associations of a flag *)

\* main.py:381-401 with crud.py:165-177.  POST /flags/{flag_id}/segments.
\* The body is a FlagSegmentIn (schemas.py:51-55): rollout_percentage is a
\* float and priority an int, without further constraint.
add_segment_to_flag(flag_id, association) ==
    /\ IF association.segment_id \notin DOMAIN segments
       THEN /\ resp' = [NoFlagResponse EXCEPT !.status = 404, !.path = "add_segment"]
            /\ UNCHANGED flag_segments
       ELSE /\ Len(flag_segments) < MaxAssociations
            /\ flag_segments' = Append(flag_segments,
                   FlagSegmentRow(flag_id, association.segment_id, association.enabled,
                                  association.rollout_percentage, association.priority))
            /\ resp' = [NoFlagResponse EXCEPT !.status = 200, !.path = "add_segment"]
    /\ UNCHANGED <<flags, segments, deleted_segments, tie_order, flag_exposures>>
    /\ UNCHANGED exp_vars
    /\ UNCHANGED <<config_vars, probe>>

InitAssociations ==
    /\ flags = [f \in FlagIds |-> FlagRow("beta_ui", 3000, <<>>)]
    /\ segments = SegmentTable
    /\ deleted_segments = {}
    /\ flag_segments = <<>>
    /\ tie_order = "asc"
    /\ flag_exposures = <<>>
    /\ resp = NoFlagResponse
    /\ ConfigStoreIdle
    /\ probe = NoProbe
    /\ ExperimentStoreIdle

\* Bodies the endpoint is sent: percentages inside and outside 0..100, a
\* segment that is stored (1, 2) or not (3).
NextAssociations ==
    \/ \E association \in ([segment_id : {1, 2, 3}, enabled : {TRUE}, rollout_percentage : {0 - 5, 0, 50, 100, 150},
                            priority : {0, 10}]) : add_segment_to_flag(1, association)
    \/ \E segment_id \in 1..3 : remove_segment_from_flag(1, segment_id)

SpecAssociations == InitAssociations /\ [][NextAssociations]_vars

----------------------------------------------------------------------------
(* Creating and deleting segments while a flag and a config are evaluated *)

MaxSegments == 3  \* ids of user_segments rows the store hands out

\* The answers of POST /segments (200, 400 when the name is taken) and of
\* DELETE /segments/{segment_id} (200, 404 when no such segment is stored).
SegmentAnswer(status, path) ==
    [NoFlagResponse EXCEPT !.status = status, !.path = path]

\* models.py:29 under the store db.py:11 selects by default (SQLite): id is an
\* INTEGER PRIMARY KEY without AUTOINCREMENT, so a new row gets one more than
\* the largest id in the table, and the id of a deleted row that was the
\* largest is handed out again.
NextSegmentId ==
    IF DOMAIN segments = {} THEN 1
    ELSE 1 + CHOOSE m \in DOMAIN segments : \A s \in DOMAIN segments : s <= m

\* main.py:270-300 with crud.py:104-116.  POST /segments
create_user_segment(segment_in) ==
    /\ IF \E s \in DOMAIN segments : segments[s].name = segment_in.name
       THEN /\ resp' = SegmentAnswer(400, "create_segment")
            /\ UNCHANGED segments
       ELSE /\ NextSegmentId <= MaxSegments
            /\ segments' = [s \in DOMAIN segments \cup {NextSegmentId} |->
                               IF s = NextSegmentId THEN segment_in ELSE segments[s]]
            /\ resp' = SegmentAnswer(200, "create_segment")
    /\ UNCHANGED <<flags, deleted_segments, flag_segments, tie_order, flag_exposures>>
    /\ UNCHANGED exp_vars
    /\ UNCHANGED <<config_vars, probe>>

\* main.py:364-371 with crud.py:153-161.  DELETE /segments/{segment_id}
\* db.delete removes the row and, by the cascade of UserSegment.flag_segments
\* (models.py:36), the flag_segments rows of the segment.  UserSegment has no
\* relationship to config_segments (models.py:67-79) and the store does not
\* enforce the foreign key, so the config_segments rows of the segment stay.
delete_user_segment(segment_id) ==
    /\ IF segment_id \notin DOMAIN segments
       THEN /\ resp' = SegmentAnswer(404, "delete_segment")
            /\ UNCHANGED <<segments, deleted_segments, flag_segments>>
       ELSE /\ segments' = [s \in DOMAIN segments \ {segment_id} |-> segments[s]]
            /\ flag_segments' = SelectSeq(flag_segments,
                                    LAMBDA fs : fs.segment_id # segment_id)
            /\ deleted_segments' = deleted_segments \cup {segment_id}
            /\ resp' = SegmentAnswer(200, "delete_segment")
    /\ UNCHANGED <<flags, tie_order, flag_exposures>>
    /\ UNCHANGED exp_vars
    /\ UNCHANGED <<config_vars, probe>>

\* A flag and a config of type string, each associated or not with segment 2
\* (country US) and with segment 1 (everyone) at a lower priority.
InitDeletion ==
    /\ \E rs \in {<<>>, <<Rule("country", "eq", "CA")>>} :
          flags = [f \in FlagIds |-> FlagRow("beta_ui", 3000, rs)]
    /\ segments = SegmentTable
    /\ deleted_segments = {}
    /\ flag_segments \in {<<>>,
                          <<FlagSegmentRow(1, 2, TRUE, 100, 10)>>,
                          <<FlagSegmentRow(1, 2, TRUE, 100, 10),
                            FlagSegmentRow(1, 1, TRUE, 0, 5)>>}
    /\ tie_order = "asc"
    /\ flag_exposures = <<>>
    /\ resp = NoFlagResponse
    /\ remote_configs = <<ConfigRow("theme", "string", "abc")>>
    /\ config_segments \in {<<>>,
                            <<ConfigSegmentRow(1, 2, "42", TRUE, 10)>>,
                            <<ConfigSegmentRow(1, 2, "42", TRUE, 10),
                              ConfigSegmentRow(1, 1, "7", TRUE, 5)>>}
    /\ config_exposures = <<>>
    /\ cresp = NoConfigResponse
    /\ probe = NoProbe
    /\ ExperimentStoreIdle

\* Bodies of POST /segments (schemas.py UserSegmentIn): a segment of the
\* subjects in CA, and one that takes the name of a stored segment.
NextDeletion ==
    \/ \E segment_in \in ({ SegmentRow("ca", <<Condition("country", "equals", Str("CA"))>>),
                            SegmentRow("us", <<Condition("country", "equals", Str("US"))>>) }) : create_user_segment(segment_in)
    \/ \E segment_id \in 1..MaxSegments : delete_user_segment(segment_id)
    \/ \E user_id \in SingleUser, country \in FlagCountries :
          evaluate_flag("beta_ui", user_id, country)
    \/ \E user_id \in SingleUser, country \in FlagCountries :
          evaluate_config("theme", user_id, country)

SpecDeletion == InitDeletion /\ [][NextDeletion]_vars

----------------------------------------------------------------------------
(* Properties of the assignment engine *)

\* C1 (as claimed).  Sticky assignment: once an assign call has returned a
\* variant for (experiment, subject), every later assign call for the pair that
\* returns a variant returns that same variant, gated experiment or not.
C1_StickyAssignment ==
    (response.kind = "assign" /\ response.status = 200 /\ response.prior # 0)
        => response.variant = response.prior

\* C2 (as claimed).  The store holds at most one UserAssignment row per
\* (experiment_id, subject_id).
C2_AtMostOneAssignment ==
    \A i, j \in DOMAIN user_assignments :
        (/\ user_assignments[i].experiment_id = user_assignments[j].experiment_id
         /\ user_assignments[i].user_id = user_assignments[j].user_id) => i = j

\* C3 (as claimed).  A first-time assign call that read 'no prior assignment'
\* (it passed the lookup of a gated experiment) and finds, when it comes to
\* insert, that a concurrent call has committed a row for the pair, adds no
\* second row and answers 200 with the variant of the committed row.
C3_RaceLoserReturnsWinner ==
    [][\A w \in Workers :
          LET e == call[w].experiment_id
              u == call[w].user_id
          IN  (/\ call[w].pc = "commit"
               /\ call[w].kind = "assign"
               /\ call'[w].pc = "idle"
               /\ experiments[e].flag_id # 0
               /\ AssignmentsOf(e, u) # {})
              => (/\ user_assignments' = user_assignments
                  /\ response'.status = 200
                  /\ response'.variant =
                         user_assignments[FirstAssignment(e, u)].variant_id)]_vars

\* C13 (as claimed).  When the experiment has a flag_id, the linked flag has
\* rules and the subject's attributes satisfy none of them, assign returns
\* None (the router answers 400), creates no UserAssignment row and changes
\* none.
C13_GateRefuses ==
    [][\A w \in Workers, user_id \in AssignUsers, country \in Countries :
          LET e == get_experiment_by_name("exp")
              flag_id == experiments[e].flag_id
          IN  (/\ AssignRequest(w, "assign", "exp", user_id, country)
               /\ flag_id # 0
               /\ flag_id \in DOMAIN flags
               /\ flags[flag_id].rules # <<>>
               /\ ~evaluate_rules(flags[flag_id].rules, AssignAttrs(country)))
              => (/\ response'.status = 400
                  /\ response'.variant = 0
                  /\ call'[w].pc = "idle"
                  /\ user_assignments' = user_assignments)]_vars

\* C26 (as claimed).  The gate is evaluated on every call and before the
\* stored assignment is read: a subject that holds an assignment for a gated
\* experiment gets None when the attributes it presents satisfy none of the
\* flag's rules, the rows untouched, and its stored variant when they do.
C26_GateBeforeStoredAssignment ==
    [][\A w \in Workers, user_id \in AssignUsers, country \in Countries :
          LET e == get_experiment_by_name("exp")
              flag_id == experiments[e].flag_id
          IN  (/\ AssignRequest(w, "assign", "exp", user_id, country)
               /\ flag_id \in DOMAIN flags
               /\ flags[flag_id].rules # <<>>
               /\ AssignmentsOf(e, user_id) # {})
              => /\ user_assignments' = user_assignments
                 /\ call'[w].pc = "idle"
                 /\ IF evaluate_rules(flags[flag_id].rules, AssignAttrs(country))
                    THEN /\ response'.status = 200
                         /\ response'.variant =
                               user_assignments[FirstAssignment(e, user_id)].variant_id
                    ELSE /\ response'.status = 400
                         /\ response'.variant = 0]_vars

\* C27 (as claimed).  Assignment records are write-once: no step of an assign
\* or exposure call deletes a row of user_assignments or changes one; the
\* only change is a row appended for an (experiment, subject) pair that had
\* none.
C27_AssignmentsWriteOnce ==
    [][\/ user_assignments' = user_assignments
       \/ /\ Len(user_assignments') = Len(user_assignments) + 1
          /\ SubSeq(user_assignments', 1, Len(user_assignments)) = user_assignments
          /\ LET new == user_assignments'[Len(user_assignments')]
             IN  AssignmentsOf(new.experiment_id, new.user_id) = {}]_vars

\* C29 (as claimed).  Exposure consistency: an exposure call for a pair for
\* which an assign call had already returned a variant creates no further
\* UserAssignment row, and the exposure row it writes names that variant.
C29_ExposureNamesAssignedVariant ==
    [][\A w \in Workers :
          (/\ call[w].kind = "exposure"
           /\ call[w].prior # 0
           /\ call'[w] # call[w])
          => /\ user_assignments' = user_assignments
             /\ exposures' # exposures =>
                   /\ Len(exposures') = Len(exposures) + 1
                   /\ exposures'[Len(exposures')].experiment_id = call[w].experiment_id
                   /\ exposures'[Len(exposures')].user_id = call[w].user_id
                   /\ exposures'[Len(exposures')].variant_id = call[w].prior]_vars

\* The cumulative traffic split of the variants of experiment e up to row i,
\* and the variant the claim names for the draw rnd.
CumulativeSplit(e, i) ==
    LET F[n \in 0..Len(variants)] ==
            IF n = 0 THEN 0
            ELSE F[n - 1] + (IF variants[n].experiment_id = e
                             THEN variants[n].traffic_split ELSE 0)
    IN  F[i]

SelectedVariant(e, rnd) ==
    LET ids == {i \in DOMAIN variants : variants[i].experiment_id = e}
        reach == {i \in ids : CumulativeSplit(e, i) >= rnd}
    IN  IF reach # {}
        THEN CHOOSE i \in reach : \A j \in reach : i <= j
        ELSE CHOOSE i \in ids : \A j \in ids : i >= j

----------------------------------------------------------------------------
(* Properties of the flag evaluator *)

\* The last evaluation found its flag: flag, rules and rollout of the request.
Answered == resp.status = 200
AskedFlag == get_flag_by_name(resp.flag)
AskedAttrs == FlagAttrs(resp.user_id, resp.country)
AskedRules == flags[AskedFlag].rules
AskedRollout == flags[AskedFlag].rollout

\* The exposure the last evaluation logged.
LastExposure == flag_exposures[Len(flag_exposures)]

\* The enabled associations of the asked flag whose segment the subject of the
\* last request matches, and those of highest priority among a set of rows.
Matches ==
    {i \in DOMAIN flag_segments :
        /\ flag_segments[i].flag_id = AskedFlag
        /\ flag_segments[i].enabled
        /\ evaluate_user_segment(flag_segments[i].segment_id, Traits(AskedAttrs))}

Top(rows) ==
    {i \in rows : \A j \in rows : flag_segments[i].priority >= flag_segments[j].priority}

\* bucket(subject_id) < rollout_percentage / 100 for association i, and
\* bucket(subject_id) < rollout, in integers.
BucketUnder(i) ==
    Bucket(resp.user_id) * 100 < flag_segments[i].rollout_percentage * Modulus

BucketUnderRollout == Bucket(resp.user_id) < AskedRollout

\* The subject of the last request has the field of the rule and satisfies
\* its operator.
Satisfied(rule) ==
    LET field_val == Get(AskedAttrs, rule.field)
    IN  /\ field_val # NULL
        /\ CASE rule.op = "eq" -> field_val = rule.value
             [] rule.op = "ne" -> field_val # rule.value
             [] rule.op = "gt" -> StrLess(rule.value, field_val)
             [] rule.op = "lt" -> StrLess(field_val, rule.value)
             [] OTHER -> FALSE

SomeRuleSatisfied == \E k \in DOMAIN AskedRules : Satisfied(AskedRules[k])

C5_HighestPriorityDecides ==
    (Answered /\ Cardinality(Matches) >= 2)
        => \E i \in Top(Matches) :
              /\ resp.enabled = BucketUnder(i)
              /\ LastExposure.segment_id = flag_segments[i].segment_id

\* The association of highest priority was inserted last, and the one inserted
\* before it would have decided otherwise.
C5_Witness ==
    /\ Answered
    /\ \E i, j \in Matches :
          /\ i < j
          /\ flag_segments[i].priority < flag_segments[j].priority
          /\ Top(Matches) = {j}
          /\ LastExposure.segment_id = flag_segments[j].segment_id
          /\ LastExposure.segment_id # flag_segments[i].segment_id
          /\ resp.enabled
          /\ ~BucketUnder(i)

\* C6.  Rule gate: when no enabled association matches and the flag has rules,
\* the subject is enabled only if it satisfies some rule (field present,
\* operator eq, ne, gt or lt holds); a subject that satisfies none is disabled
\* whatever the rollout, and one that satisfies some rule gets the rollout's
\* decision (OR over the rules).
C6_RuleGate ==
    (Answered /\ Matches = {} /\ AskedRules # <<>>)
        => /\ resp.enabled => SomeRuleSatisfied
           /\ SomeRuleSatisfied => resp.enabled = BucketUnderRollout
           /\ LastExposure.enabled = (IF resp.enabled THEN "true" ELSE "false")

\* Rules [country eq US], rollout 1.0, a subject without country: disabled.
C6_Witness ==
    /\ Answered
    /\ Matches = {}
    /\ AskedRules = <<Rule("country", "eq", "US")>>
    /\ AskedRollout = Modulus
    /\ resp.country = NULL
    /\ ~resp.enabled

\* C7.  Rollout 0.0: when no enabled association matches, a flag with rollout
\* 0.0 is disabled for every subject, the subject of bucket 0 included.
C7_RolloutZeroDisabled ==
    (Answered /\ Matches = {} /\ AskedRollout = 0) => ~resp.enabled

\* The subject of bucket 0 reaches the rollout comparison of a flag with
\* rollout 0.0.
C7_Witness ==
    /\ Answered
    /\ Matches = {}
    /\ AskedRollout = 0
    /\ AskedRules # <<>> => SomeRuleSatisfied
    /\ Bucket(resp.user_id) = 0
    /\ ~resp.enabled

\* C8 (as claimed).  Rollout 1.0: when no enabled association matches, a flag
\* with rollout 1.0 is enabled for every subject.
C8_RolloutOneEnabled ==
    (Answered /\ Matches = {} /\ AskedRollout = Modulus) => resp.enabled

\* C8 (amended).  Rollout 1.0: when no enabled association matches and the
\* rule gate does not block (the flag has no rules, or the subject satisfies
\* one), a flag with rollout 1.0 is enabled for every subject.
C8_RolloutOneEnabledPastGate ==
    (/\ Answered
     /\ Matches = {}
     /\ AskedRollout = Modulus
     /\ AskedRules = <<>> \/ SomeRuleSatisfied) => resp.enabled

\* The subject of the highest bucket, 9999, passes the gate of a flag with
\* rules and rollout 1.0.
C8_Witness ==
    /\ Answered
    /\ Matches = {}
    /\ AskedRollout = Modulus
    /\ AskedRules # <<>>
    /\ SomeRuleSatisfied
    /\ Bucket(resp.user_id) = Modulus - 1
    /\ resp.enabled

\* C9.  Segment override: when some enabled association matches, enabled is
\* bucket(subject_id) < rollout_percentage / 100 of an association of highest
\* priority among those that match, whatever the flag's rollout and rules.
C9_SegmentOverride ==
    (Answered /\ Matches # {})
        => \E i \in Top(Matches) : resp.enabled = BucketUnder(i)

\* A subject that fails every rule of a flag with rollout 0.0 is enabled
\* through a matching segment.
C9_Witness ==
    /\ Answered
    /\ Matches # {}
    /\ AskedRules # <<>>
    /\ ~SomeRuleSatisfied
    /\ AskedRollout = 0
    /\ resp.enabled

\* C10.  Every evaluation of an existing flag appends exactly one exposure
\* and leaves the earlier ones; the new exposure carries the subject, the
\* enabled value returned, and a segment id exactly when an enabled
\* association matched, then the id of a matching segment.
C10_OneExposurePerEvaluation ==
    [][get_flag_by_name(resp'.flag) # 0
       => /\ Len(flag_exposures') = Len(flag_exposures) + 1
          /\ SubSeq(flag_exposures', 1, Len(flag_exposures)) = flag_exposures
          /\ LastExposure'.flag_id = get_flag_by_name(resp'.flag)
          /\ LastExposure'.user_id = resp'.user_id
          /\ LastExposure'.enabled = (IF resp'.enabled THEN "true" ELSE "false")
          /\ (LastExposure'.segment_id # 0) <=> (Matches' # {})
          /\ (LastExposure'.segment_id # 0) =>
                \E i \in Matches' :
                    flag_segments[i].segment_id = LastExposure'.segment_id]_vars

\* The log after an evaluation the rule gate decided and one a segment
\* decided.
C10_Witness ==
    /\ Answered
    /\ Len(flag_exposures) = 2
    /\ flag_exposures[1].segment_id = 0
    /\ flag_exposures[1].enabled = "false"
    /\ AskedRollout = Modulus
    /\ flag_exposures[2].segment_id # 0
    /\ flag_exposures[2].enabled = "true"
    /\ resp.path = "segment"

\* C21.  Bucketing range: the bucket of every subject id is one of 0..9999
\* ten-thousandths, so it is below 1 and a threshold of 1 (100 percent of an
\* association, rollout 1.0 of the flag) enables the subject; the segment path
\* and the base-rollout path compare the same bucket of the subject.
C21_BucketRange ==
    /\ \A user_id \in EvaluationUsers : Bucket(user_id) \in 0..(Modulus - 1)
    /\ Answered =>
          /\ resp.path = "segment" =>
                \E i \in Top(Matches) :
                    /\ LastExposure.segment_id = flag_segments[i].segment_id
                    /\ resp.enabled = BucketUnder(i)
                    /\ flag_segments[i].rollout_percentage = 100 => resp.enabled
          /\ resp.path = "rollout" =>
                /\ resp.enabled = BucketUnderRollout
                /\ AskedRollout = Modulus => resp.enabled

\* The subject of bucket 9999 was evaluated twice: once through an association
\* at 100 percent and once through the base rollout 1.0, enabled both times.
C21_Witness ==
    /\ Answered
    /\ Len(flag_exposures) = 2
    /\ flag_exposures[1].user_id = "user-1457"
    /\ flag_exposures[2].user_id = "user-1457"
    /\ Bucket("user-1457") = Modulus - 1
    /\ flag_exposures[1].segment_id # 0
    /\ flag_exposures[1].enabled = "true"
    /\ flag_exposures[2].segment_id = 0
    /\ flag_exposures[2].enabled = "true"
    /\ resp.path = "rollout"
    /\ AskedRollout = Modulus

\* C24 (as claimed).  Priority tie-break: when several enabled, matching
\* associations of the flag have the highest priority, the one inserted first
\* is selected: its percentage decides, on every evaluation.
C24_FirstInsertedWinsTie ==
    (Answered /\ Matches # {})
        => resp.enabled = BucketUnder(CHOOSE i \in Top(Matches) : \A j \in Top(Matches) : i <= j)

----------------------------------------------------------------------------
(* Properties of remote config evaluation *)

\* Two tagged values have the same type and the same value.
Same(a, b) == a.t = b.t /\ a.v = b.v

\* The config of the last request, and the exposure the evaluation logged.
AskedConfig == get_remote_config_by_key(cresp.key)
LastConfigExposure == config_exposures[Len(config_exposures)]

\* The enabled associations of the asked config whose segment the subject of
\* the last request matches, and those of highest priority among a set of rows.
ConfigMatches ==
    {i \in DOMAIN config_segments :
        /\ config_segments[i].config_id = AskedConfig
        /\ config_segments[i].enabled
        /\ evaluate_user_segment(config_segments[i].segment_id,
                                 Traits(FlagAttrs(cresp.user_id, cresp.country)))}

\* The last evaluation answered and logged the raw value raw of segment sid
\* (0: none), and returned it parsed for the config's type.
ConfigAnswer(raw, sid) ==
    /\ cresp.status = 200
    /\ LastConfigExposure.config_id = AskedConfig
    /\ LastConfigExposure.user_id = cresp.user_id
    /\ LastConfigExposure.value = raw
    /\ LastConfigExposure.segment_id = sid
    /\ cresp.segment_id = sid
    /\ cresp.value_type = remote_configs[AskedConfig].value_type
    /\ Same(cresp.value,
            parse_config_value(raw, remote_configs[AskedConfig].value_type).value)

\* C11.  Config evaluation: every evaluation of an existing config appends
\* exactly one exposure and leaves the earlier ones; the raw value is that of
\* an enabled matching association of highest priority, or the default value
\* with no segment when none matches; the exposure records the raw value and
\* the segment id, and the caller receives the raw value parsed for the
\* config's value_type.
C11_ConfigEvaluation ==
    [][get_remote_config_by_key(cresp'.key) # 0
       => /\ Len(config_exposures') = Len(config_exposures) + 1
          /\ SubSeq(config_exposures', 1, Len(config_exposures)) = config_exposures
          /\ (IF ConfigMatches = {}
              THEN ConfigAnswer(remote_configs[AskedConfig].default_value, 0)
              ELSE \E i \in {r \in ConfigMatches : \A j \in ConfigMatches :
                               config_segments[r].priority >= config_segments[j].priority} :
                      ConfigAnswer(config_segments[i].value, config_segments[i].segment_id))']_vars

\* A number config whose default is not a number: two associations match, and
\* the one of highest priority, inserted last, decides; its raw text "42" is
\* logged and returned as the integer 42.
C11_Witness ==
    /\ cresp.status = 200
    /\ remote_configs[1].default_value = "1e5"
    /\ \E i, j \in ConfigMatches :
          /\ i < j
          /\ config_segments[i].priority < config_segments[j].priority
          /\ config_segments[j].value = "42"
          /\ LastConfigExposure.value = "42"
          /\ LastConfigExposure.segment_id = config_segments[j].segment_id
    /\ remote_configs[1].value_type = "number"
    /\ Same(cresp.value, Num(42))

----------------------------------------------------------------------------
(* Properties of the evaluators *)

\* C12 (as claimed).  parse_config_value never raises; string is the
\* identity; number gives an integer when the text is a number without '.',
\* a float when it is one with '.', and the raw text when it is not a number;
\* boolean gives true iff the lowercased text is true, 1, yes or on; json gives
\* the decoded structure, or the raw text when decoding fails.
C12_ParseNeverRaises ==
    probe.fn = "parse_config_value" =>
        LET value == probe.args.value
            value_type == probe.args.value_type
            decoded == JsonLoads(value)
        IN  /\ probe.out.raised = NULL
            /\ value_type = "string" => Same(probe.out.value, Str(value))
            /\ value_type = "number" =>
                  IF value \in {"42", "0", "3.5"}
                  THEN probe.out.value.t = (IF HasDot(value) THEN "float" ELSE "num")
                  ELSE Same(probe.out.value, Str(value))
            /\ value_type = "boolean" =>
                  Same(probe.out.value, Bool(Lower(value) \in {"true", "1", "yes", "on"}))
            /\ value_type = "json" =>
                  IF decoded.raised = NULL
                  THEN Same(probe.out.value, decoded.value)
                  ELSE Same(probe.out.value, Str(value))

\* C14 (as claimed).  For every rule list with operators eq, ne, gt, lt and
\* every attribute map, the gate's decision (evaluate_flag_rules) equals the
\* flag evaluator's rule decision (no rules, or evaluate_rules).
C14_GateIsRuleCheck ==
    probe.fn = "rules" => probe.out.gate = probe.out.flag

\* The field of the condition applied is in the traits.
FieldPresent == probe.args.condition.field \in DOMAIN probe.args.traits
ActualValue == probe.args.traits[probe.args.condition.field]

\* C15.  A condition whose field is absent from the traits evaluates to false
\* and raises nothing, for each of the twelve operators, not_equals,
\* not_contains and not_in included.
C15_MissingFieldIsFalse ==
    (probe.fn = "evaluate_segment_condition" /\ ~FieldPresent)
        => (probe.out.raised = NULL /\ probe.out.value = FALSE)

\* not_in on a missing field, with a list that does not hold None.
C15_Witness ==
    /\ probe.fn = "evaluate_segment_condition"
    /\ ~FieldPresent
    /\ probe.args.condition.operator = "not_in"
    /\ probe.args.condition.value.t = "list"
    /\ probe.args.condition.value.v = <<Str("US"), Str("CA")>>
    /\ probe.out.value = FALSE

\* C16.  in and not_in on a present field: with a comparison value that is not
\* a list, in is false and not_in is true; with a list, in is the membership
\* of the subject's value and not_in its negation.
C16_InNotIn ==
    (/\ probe.fn = "evaluate_segment_condition"
     /\ FieldPresent
     /\ probe.args.condition.operator \in {"in", "not_in"})
        => LET expected == probe.args.condition.value
               member == \E k \in DOMAIN expected.v : PyEq(ActualValue, expected.v[k])
           IN  /\ probe.out.raised = NULL
               /\ probe.out.value =
                     IF expected.t = "list"
                     THEN (probe.args.condition.operator = "in") <=> member
                     ELSE probe.args.condition.operator = "not_in"

\* not_in is true against the text "US" for a subject whose country is US, and
\* in finds CA as the second element of a list.
C16_Witness ==
    /\ probe.fn = "evaluate_segment_condition"
    /\ FieldPresent
    /\ \/ /\ probe.args.condition.operator = "not_in"
          /\ probe.args.condition.value.t = "str"
          /\ probe.args.condition.value.v = "US"
          /\ ActualValue.t = "str"
          /\ ActualValue.v = "US"
          /\ probe.out.value = TRUE
       \/ /\ probe.args.condition.operator = "in"
          /\ probe.args.condition.value.t = "list"
          /\ ActualValue.t = "str"
          /\ ActualValue.v = "CA"
          /\ probe.out.value = TRUE

\* C17 (as claimed).  The numeric operators on a present field raise nothing;
\* they give the numeric comparison when both values coerce to a number and
\* false when one does not.
C17_NumericFailClosed ==
    (/\ probe.fn = "evaluate_segment_condition"
     /\ FieldPresent
     /\ probe.args.condition.operator \in NumericOperators)
        => LET a == ToFloat(ActualValue)
               e == ToFloat(probe.args.condition.value)
               op == probe.args.condition.operator
           IN  /\ probe.out.raised = NULL
               /\ probe.out.value =
                     IF a.ok /\ e.ok
                     THEN CASE op = "greater_than" -> a.val > e.val
                            [] op = "less_than" -> a.val < e.val
                            [] op = "greater_than_or_equal" -> a.val >= e.val
                            [] OTHER -> a.val <= e.val
                     ELSE FALSE

\* C18 (as claimed).  A subject with beta_user = true and signup_date =
\* '2024-06-15' matches the segment [beta_user equals true, signup_date
\* greater_than '2024-01-01'], and find_matching_segments returns the
\* association of that segment for the subject.
C18_DateAfterMatches ==
    (/\ probe.fn = "evaluate_user_segment"
     /\ probe.args.segment_id = 4
     /\ "beta_user" \in DOMAIN probe.args.traits
     /\ probe.args.traits["beta_user"].v = TRUE
     /\ probe.args.traits["signup_date"].v = "2024-06-15")
        => (probe.out.value = TRUE /\ probe.out.matching = <<1>>)

\* C19.  A stored segment matches a subject exactly when every one of its
\* conditions evaluates to true against the subject's traits; a segment
\* without conditions matches every subject.
C19_SegmentIsConjunction ==
    (probe.fn = "evaluate_user_segment" /\ probe.args.segment_id \in DOMAIN segments)
        => LET cs == segments[probe.args.segment_id].conditions
               holds(k) == /\ condition_raises(probe.args.traits, cs[k]) = NULL
                           /\ evaluate_segment_condition(probe.args.traits, cs[k])
           IN  /\ (probe.out.raised = NULL /\ probe.out.value) <=> \A k \in DOMAIN cs : holds(k)
               /\ cs = <<>> => (probe.out.raised = NULL /\ probe.out.value)

\* A US subject whose age is "abc" does not match the US adults, a single
\* false condition; one whose age is 25 does.
C19_Witness ==
    /\ probe.fn = "evaluate_user_segment"
    /\ probe.args.segment_id = 3
    /\ "country" \in DOMAIN probe.args.traits
    /\ probe.args.traits["country"].v = "US"
    /\ "age" \in DOMAIN probe.args.traits
    /\ probe.args.traits["age"].t = "str"
    /\ probe.args.traits["age"].v = "abc"
    /\ probe.out.value = FALSE

----------------------------------------------------------------------------
(* Properties of disabled associations *)

\* C20.  A disabled association is never selected: what the evaluation of a
\* flag, and of a config, gives a subject is the same with the disabled
\* association stored and with it removed, even when it has the highest
\* priority and its segment matches the subject.
\* The step removes one disabled association of a flag, of a config.
C20_DisabledNeverSelected ==
    [][/\ (\E k \in DOMAIN flag_segments :
               /\ ~flag_segments[k].enabled
               /\ flag_segments' = Without(flag_segments, k)) =>
            \A user_id \in SingleUser, country \in Countries :
                Decide(1, user_id, FlagAttrs(user_id, country))'
                    = Decide(1, user_id, FlagAttrs(user_id, country))
       /\ (\E k \in DOMAIN config_segments :
               /\ ~config_segments[k].enabled
               /\ config_segments' = Without(config_segments, k)) =>
            \A user_id \in SingleUser, country \in Countries :
                Resolve(1, FlagAttrs(user_id, country))'
                    = Resolve(1, FlagAttrs(user_id, country))]_vars

\* A flag and a config were evaluated for a US subject while the disabled
\* association of segment 1 had the highest priority: the exposures name
\* segment 2; both disabled associations have then been removed.
C20_Witness ==
    /\ resp = FlagRemoval(200)
    /\ cresp = ConfigRemoval(200)
    /\ \A i \in DOMAIN flag_segments : flag_segments[i].enabled
    /\ \A i \in DOMAIN config_segments : config_segments[i].enabled
    /\ flag_segments # <<>>
    /\ config_segments # <<>>
    /\ Len(flag_exposures) = 1
    /\ flag_exposures[1].segment_id = 2
    /\ Len(config_exposures) = 1
    /\ config_exposures[1].segment_id = 2
    /\ config_exposures[1].value = "42"

----------------------------------------------------------------------------
(* Properties of the lookups by name *)

\* The names that are stored.
FlagNamesStored == {flags[f].name : f \in DOMAIN flags}
ConfigKeysStored == {remote_configs[c].key : c \in DOMAIN remote_configs}

\* The tables and logs of the store.
stored == <<flags, segments, flag_segments, flag_exposures, remote_configs,
            config_segments, config_exposures, experiments, variants,
            user_assignments, exposures>>

\* C22.  NotFound leaves the state unchanged: the evaluation of a flag name
\* or of a config key that is not stored answers 404 and appends no exposure;
\* an assign request for an experiment name that is not stored answers 404 and
\* creates no assignment.
C22_NotFoundChangesNothing ==
    [][/\ \A flag_name \in FlagNames \ FlagNamesStored, user_id \in SingleUser :
             evaluate_flag(flag_name, user_id, NULL)
                => (resp'.status = 404 /\ UNCHANGED stored)
       /\ \A config_key \in ConfigKeys \ ConfigKeysStored, user_id \in SingleUser :
             evaluate_config(config_key, user_id, NULL)
                => (cresp'.status = 404 /\ UNCHANGED stored)
       /\ \A w \in Workers, name \in ExperimentNames \ ({experiments[e].name : e \in DOMAIN experiments}),
             user_id \in SingleUser :
             AssignRequest(w, "assign", name, user_id, NULL)
                => (/\ response'.status = 404
                    /\ call'[w].pc = "idle"
                    /\ UNCHANGED stored)]_vars

\* Each of the three lookups has missed after an evaluation of the flag, an
\* evaluation of the config and an assignment had written their rows.
C22_Witness ==
    /\ resp.status = 404
    /\ resp.flag = "no_such_flag"
    /\ cresp.status = 404
    /\ cresp.key = "no_such_config"
    /\ response.status = 404
    /\ response.kind = "assign"
    /\ Len(flag_exposures) = 1
    /\ Len(config_exposures) = 1
    /\ Len(user_assignments) = 1

----------------------------------------------------------------------------
(* Properties of evaluation over data of odd shapes *)

\* C23 (as claimed).  Flag and config evaluation never raise for data-shape
\* problems: whatever the stored rules, conditions and config values, the
\* evaluation of a stored flag ends with an enabled or disabled decision and
\* that of a stored config with a value, never with an error.
C23_EvaluationNeverRaises ==
    /\ resp.flag \in FlagNamesStored => resp.status = 200
    /\ cresp.key \in ConfigKeysStored => cresp.status = 200

----------------------------------------------------------------------------
(* Properties of the stored associations *)

\* C28 (as claimed).  After any sequence of add_segment_to_flag and
\* remove_segment_from_flag, every stored association of a flag has a
\* rollout_percentage in [0, 100].
C28_PercentageInRange ==
    \A i \in DOMAIN flag_segments :
        /\ flag_segments[i].rollout_percentage >= 0
        /\ flag_segments[i].rollout_percentage <= 100

----------------------------------------------------------------------------
(* Properties of deleted segments *)

\* Segment segment_id matches one of the subjects a flag or a config is
\* evaluated for.
MatchesSubject(segment_id) ==
    \E u \in SingleUser, c \in FlagCountries :
        evaluate_user_segment(segment_id, Traits(FlagAttrs(u, c)))

\* C30 (as claimed).  After a segment has been deleted, no flag evaluation and
\* no config evaluation is decided by it: after every step, an association
\* that still refers to a deleted segment matches no subject, and an exposure
\* the step writes, of a flag or of a config, does not carry the id of a
\* segment deleted before.
C30_DeletedSegmentDecidesNothing ==
    [][/\ (/\ \A i \in DOMAIN flag_segments :
                 flag_segments[i].segment_id \in deleted_segments
                 => ~MatchesSubject(flag_segments[i].segment_id)
           /\ \A i \in DOMAIN config_segments :
                 config_segments[i].segment_id \in deleted_segments
                 => ~MatchesSubject(config_segments[i].segment_id))'
       /\ flag_exposures' # flag_exposures
          => flag_exposures'[Len(flag_exposures')].segment_id \notin deleted_segments
       /\ config_exposures' # config_exposures
          => config_exposures'[Len(config_exposures')].segment_id
                \notin deleted_segments]_vars

====
